---- MODULE Spec2Model ----
(***************************************************************************)
(* Model of the AI gateway request pipeline (app/gateway/router.py) and    *)
(* its engines: the append-only ledger (app/ledger/service.py), the cost   *)
(* engine (app/pricing/service.py), the policy engine                      *)
(* (app/policies/service.py) and the budget engine                         *)
(* (app/budgets/service.py).                                               *)
(*                                                                         *)
(* The database is modelled at READ COMMITTED: a statement reads the       *)
(* committed tables plus the pending writes of its own transaction; a      *)
(* transaction's pending writes become visible at commit and vanish at     *)
(* rollback.  pg_advisory_xact_lock is a table of lock holders, released   *)
(* when the holding transaction ends.                                      *)
(***************************************************************************)
EXTENDS Integers, Sequences, FiniteSets, TLC

(* ------------------------------ bounds --------------------------------- *)
MaxPurchases == 1       \* purchase_credits calls in one behaviour
MaxDay == 1             \* the clock runs over days 0..MaxDay
DaysPerMonth == 2       \* scaled calendar: a month is this many days
MaxBudgets == 2         \* budgets configured at once
MaxCalls == 3           \* direct ledger calls in one behaviour (SpecLedger)

None == 0 - 1           \* Python None / SQL NULL for integer-valued fields

(* ---------------------------- the hierarchy ---------------------------- *)
Orgs == {1}
Workspaces == {1}
AgentGroups == {1, 2}
Agents == {1, 2}
Groups == {1, 2}        \* billing groups (ledger scope)

AgentGroupOf == (1 :> 1) @@ (2 :> 2)      \* Agent.agent_group_id
WorkspaceOf == (1 :> 1) @@ (2 :> 1)       \* AgentGroup.workspace_id
OrgOf == (1 :> 1)                         \* Workspace.org_id
BillingGroupOf == (1 :> 1)                \* Organization.billing_group_id
CreditsPerUsd == 100                      \* Organization.credits_per_usd

\* the gateway request tasks that run concurrently
Requests == {"r1", "r2"}
\* ChatCompletionRequest.stream of each request body; chat_completions
\* never reads the field
RequestStream == ("r1" :> TRUE) @@ ("r2" :> FALSE)

(* ------------------------------ API keys ------------------------------- *)
\* what a client may present in the Authorization header
AuthHeaders == {"cpk_a1", "cpk_a2", "cpk_revoked", "cpk_unknown", "sk_other"}
\* the api_keys table at the start: presented token -> row (key_hash is the
\* token itself)
ApiKeyRows ==
  { [token |-> "cpk_a1", agent_id |-> 1, is_active |-> TRUE],
    [token |-> "cpk_a2", agent_id |-> 2, is_active |-> TRUE],
    [token |-> "cpk_revoked", agent_id |-> 1, is_active |-> FALSE] }

HasCpkPrefix(tok) == tok \in {"cpk_a1", "cpk_a2", "cpk_revoked", "cpk_unknown"}

\* the lookup by hash alone
resolve_api_key_any(rows, tok) ==
  { k \in rows : k.token = tok }

\* resolve_api_key: the active row with this hash, or none
resolve_api_key(rows, tok) ==
  { k \in rows : k.token = tok /\ k.is_active }

\* revoke_api_key: the table after key.is_active = False
revoke_api_key(rows, key) ==
  (rows \ {key}) \cup { [key EXCEPT !.is_active = FALSE] }

(* ------------------------- models and pricing -------------------------- *)
\* model names are character sequences so that prefixes can be tested
MockModel == <<"m", "o", "c", "k", "-", "m">>
MockUnpriced == <<"m", "o", "c", "k", "-", "x">>
GptModel == <<"g", "p", "t", "-", "4">>
ClaudeModel == <<"c", "l", "a", "u", "d", "e", "-", "3">>
ModelNames == {MockModel, MockUnpriced, GptModel, ClaudeModel}

startswith(s, p) ==
  /\ Len(s) >= Len(p)
  /\ \A i \in 1..Len(p) : s[i] = p[i]

_infer_provider(model) ==
  IF \/ startswith(model, <<"g", "p", "t", "-">>)
     \/ startswith(model, <<"o", "1">>)
     \/ startswith(model, <<"o", "3">>)
  THEN "openai"
  ELSE IF startswith(model, <<"c", "l", "a", "u", "d", "e", "-">>)
  THEN "anthropic"
  ELSE IF startswith(model, <<"m", "o", "c", "k">>)
  THEN "mock"
  ELSE "openai"

\* the pricing table; costs per 1k tokens are in thousandths of a USD
PricingRules ==
  { [provider |-> "mock", model |-> MockModel,
     input_cost_per_1k |-> 1, output_cost_per_1k |-> 2],
    [provider |-> "openai", model |-> GptModel,
     input_cost_per_1k |-> 30, output_cost_per_1k |-> 60],
    [provider |-> "anthropic", model |-> ClaudeModel,
     input_cost_per_1k |-> 3, output_cost_per_1k |-> 15] }

\* get_pricing_rule: the rules for (provider, model); empty = NotFoundError
get_pricing_rule(provider, model) ==
  { p \in PricingRules : p.provider = provider /\ p.model = model }

\* calculate_cost, as a numerator over 1000 tokens * 1000 (thousandths of USD)
calculate_cost(rule, input_tokens, output_tokens) ==
  input_tokens * rule.input_cost_per_1k + output_tokens * rule.output_cost_per_1k

\* the quotient rounded down
FloorDiv(a, b) == a \div b

CeilDiv(a, b) == (a + b - 1) \div b

\* cost_to_credits: ROUND_CEILING of cost_usd * credits_per_usd
cost_to_credits(cost, credits_per_usd) ==
  CeilDiv(cost * credits_per_usd, 1000 * 1000)

Max(a, b) == IF a >= b THEN a ELSE b
Min(a, b) == IF a <= b THEN a ELSE b

(* ------------------------- provider acquisition ----------------------- *)
\* settings.anthropic_api_key (its default: not set)
AnthropicApiKey == ""
\* the provider_credentials table: the BYOK keys of the organizations
ProviderCredentials ==
  { [org_id |-> 1, provider |-> "openai", is_active |-> TRUE] }

\* get_active_credential: the active rows for (org, provider); empty = None
get_active_credential(org_id, provider) ==
  { c \in ProviderCredentials :
      c.org_id = org_id /\ c.provider = provider /\ c.is_active }

\* get_provider: the singleton driver, or ValueError
get_provider(name) ==
  IF name = "openai" THEN "driver"
  ELSE IF name = "anthropic"
  THEN IF AnthropicApiKey = "" THEN "ValueError" ELSE "driver"
  ELSE IF name = "mock" THEN "driver"
  ELSE "ValueError"

\* make_provider: an ephemeral driver for a BYOK key, or ValueError
make_provider(name) ==
  IF name \in {"openai", "anthropic"} THEN "driver" ELSE "ValueError"

\* gateway/router.py 192-203: the driver of a request, or ValueError
AcquireProvider(org_id, model) ==
  IF get_active_credential(org_id, _infer_provider(model)) # {}
  THEN make_provider(_infer_provider(model))
  ELSE get_provider(_infer_provider(model))

\* what the provider may report as (input_tokens, output_tokens)
ProviderTokens == { <<0, 0>>, <<100, 200>>, <<10000, 5000>> }
\* max_tokens a client may send
RequestMaxTokens == {None, 300}


(* ------------------------------ policies ------------------------------- *)
\* a policy row; exactly one of the four target columns is not None;
\* allowed_models is NULL when has_allowed is FALSE
Policy1 ==
  [id |-> 1, org_id |-> 1, workspace_id |-> None, agent_group_id |-> None,
   agent_id |-> None, has_allowed |-> TRUE,
   allowed_models |-> {MockModel, MockUnpriced},
   max_input_tokens |-> None, max_output_tokens |-> 500, rpm_limit |-> None,
   is_active |-> TRUE]
Policy2 ==
  [id |-> 2, org_id |-> None, workspace_id |-> None, agent_group_id |-> None,
   agent_id |-> 1, has_allowed |-> FALSE, allowed_models |-> {},
   max_input_tokens |-> None, max_output_tokens |-> 300, rpm_limit |-> 60,
   is_active |-> TRUE]
PolicyUniverse == {Policy1, Policy2}
\* the policy tables a behaviour may start with
PolicyConfigs == { {}, PolicyUniverse }

EmptyPolicy ==
  [has_allowed |-> FALSE, allowed_models |-> {}, max_input_tokens |-> None,
   max_output_tokens |-> None, rpm_limit |-> None]

\* the larger of the non-None values
MaxOpt(a, b) == IF a = None THEN b ELSE IF b = None THEN a ELSE Max(a, b)

\* minimum of the non-None values
MinOpt(a, b) == IF a = None THEN b ELSE IF b = None THEN a ELSE Min(a, b)

\* the loop body with a later allowed list replacing the merged one
MergeOneLastListWins(m, p) ==
  IF ~p.is_active THEN m
  ELSE [has_allowed |-> m.has_allowed \/ p.has_allowed,
        allowed_models |->
          IF ~p.has_allowed THEN m.allowed_models ELSE p.allowed_models,
        max_input_tokens |-> MinOpt(m.max_input_tokens, p.max_input_tokens),
        max_output_tokens |-> MinOpt(m.max_output_tokens, p.max_output_tokens),
        rpm_limit |-> MinOpt(m.rpm_limit, p.rpm_limit)]

\* one iteration of the loop of _merge_policies
MergeOne(m, p) ==
  IF ~p.is_active THEN m
  ELSE [has_allowed |-> m.has_allowed \/ p.has_allowed,
        allowed_models |->
          IF ~p.has_allowed THEN m.allowed_models
          ELSE IF ~m.has_allowed THEN p.allowed_models
          ELSE { x \in m.allowed_models : x \in p.allowed_models },
        max_input_tokens |-> MinOpt(m.max_input_tokens, p.max_input_tokens),
        max_output_tokens |-> MinOpt(m.max_output_tokens, p.max_output_tokens),
        rpm_limit |-> MinOpt(m.rpm_limit, p.rpm_limit)]

RECURSIVE MergeFrom(_, _)
MergeFrom(m, ps) ==
  IF ps = {} THEN m
  ELSE LET p == CHOOSE q \in ps : TRUE
       IN MergeFrom(MergeOne(m, p), ps \ {p})

_merge_policies(ps) == MergeFrom(EmptyPolicy, ps)

\* the WHERE clause of get_effective_policy
PolicyOnPath(p, org_id, workspace_id, agent_group_id, agent_id) ==
  /\ p.is_active
  /\ \/ p.org_id = org_id
     \/ p.workspace_id = workspace_id
     \/ p.agent_group_id = agent_group_id
     \/ p.agent_id = agent_id

get_effective_policy(ps, org_id, workspace_id, agent_group_id, agent_id) ==
  _merge_policies({ p \in ps :
      PolicyOnPath(p, org_id, workspace_id, agent_group_id, agent_id) })

\* enforce_policy: does it raise AppError(403)?
PolicyViolation(policy, model) ==
  policy.has_allowed /\ model \notin policy.allowed_models

\* the limit of the policy returned whatever the caller asked for
enforce_policy_limit_only(policy, requested_max_tokens) ==
  IF policy.max_output_tokens # None THEN policy.max_output_tokens
  ELSE requested_max_tokens

\* enforce_policy: the effective max_tokens it returns
enforce_policy(policy, requested_max_tokens) ==
  IF policy.max_output_tokens # None
  THEN IF requested_max_tokens = None
       THEN policy.max_output_tokens
       ELSE Min(requested_max_tokens, policy.max_output_tokens)
  ELSE requested_max_tokens

(* ------------------------------- budgets ------------------------------- *)
Budget1 ==
  [id |-> 1, org_id |-> None, workspace_id |-> None, agent_group_id |-> None,
   agent_id |-> 1, period |-> "DAILY", limit_credits |-> 1,
   auto_disable |-> TRUE, is_active |-> TRUE]
Budget2 ==
  [id |-> 2, org_id |-> 1, workspace_id |-> None, agent_group_id |-> None,
   agent_id |-> None, period |-> "TOTAL", limit_credits |-> 2,
   auto_disable |-> FALSE, is_active |-> TRUE]
Budget3 ==
  [id |-> 3, org_id |-> None, workspace_id |-> None, agent_group_id |-> 2,
   agent_id |-> None, period |-> "MONTHLY", limit_credits |-> 1,
   auto_disable |-> TRUE, is_active |-> TRUE]
Budget4 ==
  [id |-> 4, org_id |-> None, workspace_id |-> 1, agent_group_id |-> None,
   agent_id |-> None, period |-> "DAILY", limit_credits |-> 0,
   auto_disable |-> TRUE, is_active |-> FALSE]
BudgetUniverse == {Budget1, Budget2, Budget3, Budget4}

\* _period_start: first day of the window, None for TOTAL
_period_start(period, today) ==
  IF period = "DAILY" THEN today
  ELSE IF period = "MONTHLY" THEN today - (today % DaysPerMonth)
  ELSE None

\* the agents selected by the subqueries of _sum_usage_for_period
AgentsInScope(org_id, workspace_id, agent_group_id, agent_id) ==
  IF agent_id # None THEN { a \in Agents : a = agent_id }
  ELSE IF agent_group_id # None
  THEN { a \in Agents : AgentGroupOf[a] = agent_group_id }
  ELSE IF workspace_id # None
  THEN { a \in Agents : WorkspaceOf[AgentGroupOf[a]] = workspace_id }
  ELSE IF org_id # None
  THEN { a \in Agents : OrgOf[WorkspaceOf[AgentGroupOf[a]]] = org_id }
  ELSE Agents

RECURSIVE SumCredits(_, _)
SumCredits(events, idx) ==
  IF idx = {} THEN 0
  ELSE LET i == CHOOSE j \in idx : TRUE
       IN events[i].credits_charged + SumCredits(events, idx \ {i})

\* the count of every row whatever its status
_sum_usage_any_status(events, org_id, workspace_id, agent_group_id, agent_id, since) ==
  SumCredits(events,
    { i \in DOMAIN events :
        /\ (since # None => events[i].created_at >= since)
        /\ events[i].agent_id \in
             AgentsInScope(org_id, workspace_id, agent_group_id, agent_id) })

\* _sum_usage_for_period over the usage table `events`
_sum_usage_for_period(events, org_id, workspace_id, agent_group_id, agent_id, since) ==
  SumCredits(events,
    { i \in DOMAIN events :
        /\ events[i].status = "SUCCESS"
        /\ (since # None => events[i].created_at >= since)
        /\ events[i].agent_id \in
             AgentsInScope(org_id, workspace_id, agent_group_id, agent_id) })

\* the WHERE clause of check_budgets
BudgetOnPath(b, org_id, workspace_id, agent_group_id, agent_id) ==
  /\ b.is_active
  /\ \/ b.org_id = org_id
     \/ b.workspace_id = workspace_id
     \/ b.agent_group_id = agent_group_id
     \/ b.agent_id = agent_id

\* current_spend of one budget, as check_budgets computes it
CurrentSpend(events, b, today) ==
  _sum_usage_for_period(events, b.org_id, b.workspace_id, b.agent_group_id,
                        b.agent_id, _period_start(b.period, today))

\* the comparison with the limit itself refused
ExceedsOrEqual(current_spend, required_credits, b) ==
  current_spend + required_credits >= b.limit_credits

\* the comparison of check_budgets
Exceeds(current_spend, required_credits, b) ==
  current_spend + required_credits > b.limit_credits

(* ------------------------------- ledger -------------------------------- *)
NoKey == "NULL"         \* idempotency_key IS NULL
\* f"gateway:{request_id}"
GatewayKey(request_id) ==
  IF request_id = "r1" THEN "gateway:r1"
  ELSE IF request_id = "r2" THEN "gateway:r2"
  ELSE "gateway:"

RECURSIVE SumAmounts(_, _)
SumAmounts(entries, idx) ==
  IF idx = {} THEN 0
  ELSE LET i == CHOOSE j \in idx : TRUE
       IN entries[i].amount + SumAmounts(entries, idx \ {i})

\* the sum without the WHERE clause on group_id
get_group_balance_all_groups(entries, group_id) ==
  SumAmounts(entries, DOMAIN entries)

\* get_group_balance over the entries a transaction can see
get_group_balance(entries, group_id) ==
  SumAmounts(entries, { i \in DOMAIN entries : entries[i].group_id = group_id })

\* the advisory lock key of a group: group_id.int % 2**31
LockKey(group_id) ==
  group_id - ((2^30) * ((group_id \div (2^30)) \div 2)) * 2

\* the rows carrying an idempotency key (the replay lookup)
ExistingByKey(entries, key) ==
  { i \in DOMAIN entries : entries[i].idempotency_key = key }

LedgerEntry(group_id, amount, type, key) ==
  [group_id |-> group_id, amount |-> amount, type |-> type,
   idempotency_key |-> key]

\* the test that also refuses a deduction of the whole balance
InsufficientOrEqual(balance, amount) == balance <= amount

\* ledger/service.py 105: the test that raises InsufficientCreditsError
Insufficient(balance, amount) == balance < amount

\* append_entry without its replay lookup
append_entry_no_lookup(visible, group_id, amount, type, key) ==
  << LedgerEntry(group_id, amount, type, key) >>

\* append_entry: the rows it adds to the transaction, given what it can see
append_entry(visible, group_id, amount, type, key) ==
  IF key # NoKey /\ ExistingByKey(visible, key) # {}
  THEN << >>
  ELSE << LedgerEntry(group_id, amount, type, key) >>


(* ================================ state ================================ *)
VARIABLES
  ledger,        \* the ledger table (committed rows), in insertion order
  usage,         \* the usage_events table (committed rows)
  audit,         \* the audit_logs table (committed rows)
  agentStatus,   \* Agent.status
  groupActive,   \* AgentGroup.is_active
  wsActive,      \* Workspace.is_active
  orgActive,     \* Organization.is_active
  budgets,       \* the budgets table
  policies,      \* the policies table
  apiKeys,       \* the api_keys table
  lock,          \* advisory lock key -> the request whose transaction holds it
  now,           \* today's date (UTC), as a day number
  req,           \* per gateway request: position and local variables
  providerCalls, \* the requests for which generate_completion was invoked
  purchases,     \* purchase_credits calls made so far
  calls,         \* direct ledger calls made so far (SpecLedger)
  lastCall,      \* the last direct ledger call and what it returned
  task,          \* per concurrent purchase_credits call: position and locals
  lastEval,      \* the last direct call of the policy or pricing engine
  admin          \* the management plane: rows it created, its last response

vars == << ledger, usage, audit, agentStatus, groupActive, wsActive, orgActive,
           budgets, policies, apiKeys, lock, now, req, providerCalls,
           purchases, calls, lastCall, task, lastEval, admin >>

entities == << agentStatus, groupActive, wsActive, orgActive >>
config == << budgets, policies, apiKeys >>
tables == << ledger, usage, audit >>
direct == << calls, lastCall, task, lastEval, admin >>

Free == "free"
LockKeys == { LockKey(g) : g \in Groups }

IdleReq ==
  [pc |-> "idle", token |-> "", request_id |-> "", agent_id |-> None,
   model |-> << >>,
   max_tokens |-> None, required |-> 0, toCheck |-> {},
   blocked |-> None, current_spend |-> 0,
   input_tokens |-> 0, output_tokens |-> 0, credits |-> None,
   pending |-> << >>, status |-> 0, charged |-> None, deduct |-> "none"]

NoCall == [op |-> "none", key |-> NoKey, group_id |-> 0, amount |-> 0,
           result |-> "none", row |-> 0]

\* the purchase_credits calls that run concurrently (SpecRace)
Purchasers == {"t1", "t2"}
IdleTask == [pc |-> "idle", key |-> NoKey, pending |-> << >>,
             result |-> "none"]

\* no engine call has been made yet
NoEval == [op |-> "none"]
\* the management plane before any of its routes was called
NoAdmin ==
  [workspaces |-> {},
   response |-> [route |-> "none", user |-> "", org |-> None, status |-> 0,
                 targets |-> 0, balance |-> None, rows |-> {}]]

InitTables(f) ==
  /\ ledger = IF f = 0 THEN << >>
              ELSE << LedgerEntry(1, f, "CREDIT_PURCHASE", NoKey) >>
  /\ usage = << >>
  /\ audit = << >>

InitEntities ==
  /\ agentStatus = [a \in Agents |-> "ACTIVE"]
  /\ groupActive = [g \in AgentGroups |-> TRUE]
  /\ wsActive = [w \in Workspaces |-> TRUE]
  /\ orgActive = [o \in Orgs |-> TRUE]

Init ==
  /\ InitTables(0)
  /\ InitEntities
  /\ budgets \in { bs \in SUBSET BudgetUniverse : Cardinality(bs) <= MaxBudgets }
  /\ policies \in PolicyConfigs
  /\ apiKeys = ApiKeyRows
  /\ lock = [k \in LockKeys |-> Free]
  /\ now = 0
  /\ req = [r \in Requests |-> IdleReq]
  /\ providerCalls = {}
  /\ purchases = 0
  /\ calls = 0
  /\ lastCall = NoCall
  /\ task = [t \in Purchasers |-> IdleTask]
  /\ lastEval = NoEval
  /\ admin = NoAdmin

(* ------------------------ request bookkeeping -------------------------- *)
\* the hierarchy path of request r (after the agent is loaded)
AgentOf(r) == req[r].agent_id
GroupOfReq(r) == AgentGroupOf[AgentOf(r)]
WsOfReq(r) == WorkspaceOf[GroupOfReq(r)]
OrgOfReq(r) == OrgOf[WsOfReq(r)]
BillingOfReq(r) == BillingGroupOf[OrgOfReq(r)]

\* the request has answered: only what the response and the error carry stays
Responded(r, code, rec) ==
  [rec EXCEPT !.pc = "done", !.status = code, !.model = << >>,
              !.max_tokens = None, !.toCheck = {},
              !.input_tokens = 0, !.output_tokens = 0, !.pending = << >>]

Released(r) == [k \in LockKeys |-> IF lock[k] = r THEN Free ELSE lock[k]]

\* end of `async with db.begin()`: commit when the block ends normally,
\* roll back when an exception leaves it; either way the xact lock goes
EndTransaction(r, pendLedger, pendUsage, pendAudit, raised) ==
  /\ ledger' = IF raised THEN ledger ELSE ledger \o pendLedger
  /\ usage' = IF raised THEN usage ELSE usage \o pendUsage
  /\ audit' = IF raised THEN audit ELSE audit \o pendAudit
  /\ lock' = Released(r)


\* a usage_events row; request_id is not a column of the table, it is kept
\* here to tell the rows of different requests apart
UsageEvent(r, status, credits_charged, input_tokens, output_tokens) ==
  [request_id |-> req[r].request_id, agent_id |-> AgentOf(r),
   group_id |-> BillingOfReq(r), model |-> req[r].model,
   status |-> status, credits_charged |-> credits_charged,
   input_tokens |-> input_tokens, output_tokens |-> output_tokens,
   created_at |-> now]

\* log_event: an audit_logs row
AuditLog(r, event_type) ==
  [request_id |-> req[r].request_id, org_id |-> OrgOfReq(r),
   actor_agent_id |-> AgentOf(r), event_type |-> event_type]

(* ===================== the gateway request pipeline ===================== *)
\* the agent loaded without a look at its status
AuthenticateAnyStatus(r) ==
  /\ req[r].pc = "idle"
  /\ \E tok \in AuthHeaders :
       LET rows == resolve_api_key(apiKeys, tok)
           agent == (CHOOSE k \in rows : TRUE).agent_id
       IN req' = [req EXCEPT ![r] =
            IF ~HasCpkPrefix(tok)
            THEN Responded(r, 401, [@ EXCEPT !.token = tok])
            ELSE IF rows = {}
            THEN Responded(r, 401, [@ EXCEPT !.token = tok, !.request_id = r])
            ELSE [@ EXCEPT !.pc = "hierarchy", !.token = tok,
                           !.request_id = r, !.agent_id = agent]]
  /\ UNCHANGED << tables, entities, config, lock, now, providerCalls,
                  purchases, direct >>

\* lines 89-115: header checks, a fresh request_id, the pre-check transaction
\* opens, the API key is resolved and the agent loaded
Authenticate(r) ==
  /\ req[r].pc = "idle"
  /\ \E tok \in AuthHeaders :
       LET rows == resolve_api_key(apiKeys, tok)
           agent == (CHOOSE k \in rows : TRUE).agent_id
       IN req' = [req EXCEPT ![r] =
            IF ~HasCpkPrefix(tok)
            THEN Responded(r, 401, [@ EXCEPT !.token = tok])
            ELSE IF rows = {}
            THEN Responded(r, 401, [@ EXCEPT !.token = tok, !.request_id = r])
            ELSE IF agentStatus[agent] # "ACTIVE"
            THEN Responded(r, 403, [@ EXCEPT !.token = tok, !.request_id = r,
                                             !.agent_id = agent])
            ELSE [@ EXCEPT !.pc = "hierarchy", !.token = tok,
                           !.request_id = r, !.agent_id = agent]]
  /\ UNCHANGED << tables, entities, config, lock, now, providerCalls,
                  purchases, direct >>

\* line 147: effective_max_tokens or 1024
EstimatedOutput(effective_max_tokens) ==
  IF effective_max_tokens = None \/ effective_max_tokens = 0
  THEN 1024 ELSE effective_max_tokens

\* lines 145-155: the estimate of the pre-check
EstimatedCredits(rule, effective_max_tokens) ==
  cost_to_credits(calculate_cost(rule, 0, EstimatedOutput(effective_max_tokens)),
                  CreditsPerUsd)

\* the budgets check_budgets fetches (budgets/service.py 131-142)
FetchBudgets(r) ==
  { b \in budgets : BudgetOnPath(b, OrgOfReq(r), WsOfReq(r), GroupOfReq(r),
                                 AgentOf(r)) }

\* the walk that tests the organization and the workspace only
HierarchyDisabledAboveGroup(r) ==
  \/ ~orgActive[OrgOfReq(r)]
  \/ ~wsActive[WsOfReq(r)]

\* lines 117-125: is the organization, the workspace or the agent group of
\* the request disabled?
HierarchyDisabled(r) ==
  \/ ~orgActive[OrgOfReq(r)]
  \/ ~wsActive[WsOfReq(r)]
  \/ ~groupActive[GroupOfReq(r)]

\* lines 117-155: the hierarchy walk and its is_active tests, then policy,
\* pricing and the estimate; check_budgets fetches its budgets
ResolveAndPolicy(r) ==
  /\ req[r].pc = "hierarchy"
  /\ \E m \in ModelNames, mt \in RequestMaxTokens :
       LET policy == get_effective_policy(policies, OrgOfReq(r), WsOfReq(r),
                                          GroupOfReq(r), AgentOf(r))
           effective == enforce_policy(policy, mt)
           rules == get_pricing_rule(_infer_provider(m), m)
           rule == CHOOSE p \in rules : TRUE
       IN req' = [req EXCEPT ![r] =
            IF HierarchyDisabled(r)
            THEN Responded(r, 403, @)
            ELSE IF PolicyViolation(policy, m)
            THEN Responded(r, 403, @)
            ELSE IF rules = {}
            THEN Responded(r, 404, @)
            ELSE [@ EXCEPT !.pc = "budgets", !.model = m,
                           !.max_tokens = effective,
                           !.required = Max(1, EstimatedCredits(rule, effective)),
                           !.toCheck = { b.id : b \in FetchBudgets(r) }]]
  /\ UNCHANGED << tables, entities, config, lock, now, providerCalls,
                  purchases, direct >>

BudgetById(id) == CHOOSE b \in budgets : b.id = id

\* budgets/service.py 144-167: one iteration of the loop of check_budgets;
\* the rows come back in no particular order
CheckBudget(r) ==
  /\ req[r].pc = "budgets"
  /\ \E id \in req[r].toCheck :
       LET b == BudgetById(id)
           current_spend == CurrentSpend(usage, b, now)
       IN IF Exceeds(current_spend, req[r].required, b)
          THEN req' = [req EXCEPT ![r] =
                 [@ EXCEPT !.pc = IF b.auto_disable THEN "auto_disable"
                                  ELSE "budget_raise",
                           !.blocked = id, !.current_spend = current_spend]]
          ELSE req' = [req EXCEPT ![r].toCheck = @ \ {id}]
  /\ UNCHANGED << tables, entities, config, lock, now, providerCalls,
                  purchases, direct >>

\* a disable that also marks the agents below a disabled agent group
DisableAgentCascade(b) ==
  IF b.agent_id # None THEN {b.agent_id}
  ELSE IF b.agent_group_id # None
  THEN { a \in Agents : AgentGroupOf[a] = b.agent_group_id }
  ELSE {}

\* _auto_disable_target: which entity the write session changes
DisableAgent(b) ==
  IF b.agent_id # None THEN {b.agent_id}
  ELSE {}
DisableGroup(b) ==
  IF b.agent_id = None /\ b.agent_group_id # None THEN {b.agent_group_id}
  ELSE {}
DisableWorkspace(b) ==
  IF b.agent_id = None /\ b.agent_group_id = None /\ b.workspace_id # None
  THEN {b.workspace_id} ELSE {}
DisableOrg(b) ==
  IF /\ b.agent_id = None /\ b.agent_group_id = None
     /\ b.workspace_id = None /\ b.org_id # None
  THEN {b.org_id} ELSE {}

\* the disable written through the caller's session, lost at its rollback
AutoDisableInCallerTransaction(r) ==
  /\ req[r].pc = "auto_disable"
  /\ req' = [req EXCEPT ![r].pc = "budget_raise"]
  /\ UNCHANGED << tables, entities, config, lock, now, providerCalls,
                  purchases, direct >>

\* budgets/service.py 87-116: the disable, committed by its own session
AutoDisable(r) ==
  /\ req[r].pc = "auto_disable"
  /\ LET b == BudgetById(req[r].blocked)
     IN /\ agentStatus' = [a \in Agents |->
             IF a \in DisableAgent(b) THEN "BUDGET_EXHAUSTED" ELSE agentStatus[a]]
        /\ groupActive' = [g \in AgentGroups |->
             IF g \in DisableGroup(b) THEN FALSE ELSE groupActive[g]]
        /\ wsActive' = [w \in Workspaces |->
             IF w \in DisableWorkspace(b) THEN FALSE ELSE wsActive[w]]
        /\ orgActive' = [o \in Orgs |->
             IF o \in DisableOrg(b) THEN FALSE ELSE orgActive[o]]
  /\ req' = [req EXCEPT ![r].pc = "budget_raise"]
  /\ UNCHANGED << tables, config, lock, now, providerCalls, purchases, direct >>

\* the refusal recorded in the usage log and committed before the error
BudgetRaiseRecorded(r) ==
  /\ req[r].pc = "budget_raise"
  /\ EndTransaction(r, << >>,
                    << UsageEvent(r, "BUDGET_EXCEEDED", 0, 0, 0) >>,
                    << >>, FALSE)
  /\ req' = [req EXCEPT ![r] = Responded(r, 402, @)]
  /\ UNCHANGED << entities, config, now, providerCalls, purchases, direct >>

\* budgets/service.py 168-173: AppError(402) leaves the pre-check transaction
BudgetRaise(r) ==
  /\ req[r].pc = "budget_raise"
  /\ EndTransaction(r, << >>, << >>, << >>, TRUE)
  /\ req' = [req EXCEPT ![r] = Responded(r, 402, @)]
  /\ UNCHANGED << entities, config, now, providerCalls, purchases, direct >>

\* the pre-check taking the lock without waiting for its holder
PreCheckLockNoWait(r) ==
  /\ req[r].pc = "budgets"
  /\ req[r].toCheck = {}
  /\ lock' = [lock EXCEPT ![LockKey(BillingOfReq(r))] = r]
  /\ req' = [req EXCEPT ![r].pc = "prelocked"]
  /\ UNCHANGED << tables, entities, config, now, providerCalls, purchases,
                  direct >>

\* lines 167-170: get_group_balance_for_update in the pre-check; the balance
\* it returns is not used
PreCheckLock(r) ==
  /\ req[r].pc = "budgets"
  /\ req[r].toCheck = {}
  /\ lock[LockKey(BillingOfReq(r))] = Free
  /\ lock' = [lock EXCEPT ![LockKey(BillingOfReq(r))] = r]
  /\ req' = [req EXCEPT ![r].pc = "prelocked"]
  /\ UNCHANGED << tables, entities, config, now, providerCalls, purchases,
                  direct >>

\* lines 178-180: kwargs["max_tokens"] as the provider will receive it, None
\* when the key is left out (`if effective_max_tokens:` skips None and 0)
ProviderKwargs(effective_max_tokens) ==
  IF effective_max_tokens # None /\ effective_max_tokens # 0
  THEN effective_max_tokens
  ELSE None

\* the provider acquired inside the pre-check transaction, which stays open
EndPreCheckStillOpen(r) ==
  /\ req[r].pc = "prelocked"
  /\ req' = [req EXCEPT ![r].pc = "provider",
                        ![r].max_tokens = ProviderKwargs(@)]
  /\ UNCHANGED << tables, lock, entities, config, now, providerCalls,
                  purchases, direct >>

\* lines 174-180: the pre-check transaction commits and the keyword
\* arguments of the provider call are built; the request goes on to acquire
\* its provider
EndPreCheck(r) ==
  /\ req[r].pc = "prelocked"
  /\ EndTransaction(r, << >>, << >>, << >>, FALSE)
  /\ req' = [req EXCEPT ![r].pc = "provider",
                        ![r].max_tokens = ProviderKwargs(@)]
  /\ UNCHANGED << entities, config, now, providerCalls, purchases, direct >>

\* lines 243-253: the actual credits of a provider response
ActualCredits(model, input_tokens, output_tokens) ==
  LET rule == CHOOSE p \in get_pricing_rule(_infer_provider(model), model) : TRUE
  IN cost_to_credits(calculate_cost(rule, input_tokens, output_tokens),
                     CreditsPerUsd)

\* the error record written, but the 502 raised inside its transaction
ProviderRaisesRolledBack(r) ==
  /\ req[r].pc = "provider"
  /\ AcquireProvider(OrgOfReq(r), req[r].model) = "driver"
  /\ providerCalls' = providerCalls \cup {r}
  /\ EndTransaction(r, << >>,
                    << UsageEvent(r, "ERROR", 0, 0, 0) >>,
                    << AuditLog(r, "gateway.request_error") >>, TRUE)
  /\ req' = [req EXCEPT ![r] = Responded(r, 502, @)]
  /\ UNCHANGED << entities, config, now, purchases, direct >>

\* lines 196-203 and 210-241: no driver can be acquired; HTTPException(503)
\* is raised inside the outer try, whose `except Exception` records the
\* attempt and answers 502
ProviderNotConfigured(r) ==
  /\ req[r].pc = "provider"
  /\ AcquireProvider(OrgOfReq(r), req[r].model) = "ValueError"
  /\ EndTransaction(r, << >>,
                    << UsageEvent(r, "ERROR", 0, 0, 0) >>,
                    << AuditLog(r, "gateway.request_error") >>, FALSE)
  /\ req' = [req EXCEPT ![r] = Responded(r, 502, @)]
  /\ UNCHANGED << entities, config, now, providerCalls, purchases, direct >>

\* lines 204-241: generate_completion is invoked and raises; the failed
\* attempt is recorded in a transaction of its own and the client gets 502
ProviderRaises(r) ==
  /\ req[r].pc = "provider"
  /\ AcquireProvider(OrgOfReq(r), req[r].model) = "driver"
  /\ providerCalls' = providerCalls \cup {r}
  /\ EndTransaction(r, << >>,
                    << UsageEvent(r, "ERROR", 0, 0, 0) >>,
                    << AuditLog(r, "gateway.request_error") >>, FALSE)
  /\ req' = [req EXCEPT ![r] = Responded(r, 502, @)]
  /\ UNCHANGED << entities, config, now, purchases, direct >>

\* the usage event recording the estimate of the pre-check
SuccessEventEstimated(r, credits, input_tokens, output_tokens) ==
  << UsageEvent(r, "SUCCESS", req[r].required, input_tokens, output_tokens) >>

\* lines 295-326: the usage event and the audit entry of a charged request
SuccessEvent(r, credits, input_tokens, output_tokens) ==
  << UsageEvent(r, "SUCCESS", credits, input_tokens, output_tokens) >>

\* the provider returns and deduct_credits goes for the lock without looking
\* for a replay first
ProviderReturnsNoLookup(r) ==
  /\ req[r].pc = "provider"
  /\ AcquireProvider(OrgOfReq(r), req[r].model) = "driver"
  /\ providerCalls' = providerCalls \cup {r}
  /\ \E t \in ProviderTokens :
       LET credits == ActualCredits(req[r].model, t[1], t[2])
       IN IF credits <= 0
          THEN /\ EndTransaction(r, << >>, << >>, << >>, TRUE)
               /\ req' = [req EXCEPT ![r] =
                    Responded(r, 500, [@ EXCEPT !.credits = credits,
                                                !.deduct = "value_error"])]
          ELSE /\ req' = [req EXCEPT ![r] =
                    [@ EXCEPT !.pc = "deduct_lock", !.input_tokens = t[1],
                              !.output_tokens = t[2], !.credits = credits,
                              !.max_tokens = None]]
               /\ UNCHANGED << tables, lock >>
  /\ UNCHANGED << entities, config, now, purchases, direct >>

\* lines 204-209, 243-260 and ledger/service.py 93-102: the provider returns,
\* the actual credits are computed, the commit transaction opens and
\* deduct_credits validates the amount and looks for a replay; a replay is
\* recorded and committed without the lock
ProviderReturns(r) ==
  /\ req[r].pc = "provider"
  /\ AcquireProvider(OrgOfReq(r), req[r].model) = "driver"
  /\ providerCalls' = providerCalls \cup {r}
  /\ \E t \in ProviderTokens :
       LET credits == ActualCredits(req[r].model, t[1], t[2])
       IN IF credits <= 0
          THEN /\ EndTransaction(r, << >>, << >>, << >>, TRUE)
               /\ req' = [req EXCEPT ![r] =
                    Responded(r, 500, [@ EXCEPT !.credits = credits,
                                                !.deduct = "value_error"])]
          ELSE IF ExistingByKey(ledger, GatewayKey(req[r].request_id)) # {}
          THEN /\ EndTransaction(r, << >>,
                                 SuccessEvent(r, credits, t[1], t[2]),
                                 << AuditLog(r, "gateway.request") >>, FALSE)
               /\ req' = [req EXCEPT ![r] =
                    Responded(r, 200, [@ EXCEPT !.credits = credits,
                                                !.charged = credits,
                                                !.deduct = "replay"])]
          ELSE /\ req' = [req EXCEPT ![r] =
                    [@ EXCEPT !.pc = "deduct_lock", !.input_tokens = t[1],
                              !.output_tokens = t[2], !.credits = credits,
                              !.max_tokens = None]]
               /\ UNCHANGED << tables, lock >>
  /\ UNCHANGED << entities, config, now, purchases, direct >>

\* the deduction without waiting for the advisory lock
DeductLockNoWait(r) ==
  /\ req[r].pc = "deduct_lock"
  /\ lock' = [lock EXCEPT ![LockKey(BillingOfReq(r))] = r]
  /\ req' = [req EXCEPT ![r].pc = "deduct_locked"]
  /\ UNCHANGED << tables, entities, config, now, providerCalls, purchases,
                  direct >>

\* ledger/service.py 38-39: pg_advisory_xact_lock waits for the lock
DeductLock(r) ==
  /\ req[r].pc = "deduct_lock"
  /\ lock[LockKey(BillingOfReq(r))] \in {Free, r}
  /\ lock' = [lock EXCEPT ![LockKey(BillingOfReq(r))] = r]
  /\ req' = [req EXCEPT ![r].pc = "deduct_locked"]
  /\ UNCHANGED << tables, entities, config, now, providerCalls, purchases,
                  direct >>

\* lines 274-293: the handler of InsufficientCreditsError adds the event and
\* raises HTTPException(402) inside `async with db.begin()`
InsufficientHandler(r) ==
  /\ EndTransaction(r, << >>,
                    << UsageEvent(r, "BUDGET_EXCEEDED", 0,
                                  req[r].input_tokens, req[r].output_tokens) >>,
                    << >>, TRUE)
  /\ req' = [req EXCEPT ![r] =
               Responded(r, 402, [@ EXCEPT !.deduct = "insufficient"])]

\* ledger/service.py 41 and 104-115: the balance is read under the lock;
\* either InsufficientCreditsError is raised (and handled by the gateway), or
\* append_entry adds the row to the transaction
DeductCheck(r) ==
  /\ req[r].pc = "deduct_locked"
  /\ LET balance == get_group_balance(ledger, BillingOfReq(r))
         rows == append_entry(ledger, BillingOfReq(r), 0 - req[r].credits,
                              "USAGE_DEDUCTION", GatewayKey(req[r].request_id))
     IN IF Insufficient(balance, req[r].credits)
        THEN InsufficientHandler(r)
        ELSE /\ req' = [req EXCEPT ![r] =
                  [@ EXCEPT !.pc = "record", !.pending = rows,
                            !.deduct = IF rows = << >> THEN "replay"
                                       ELSE "entry"]]
             /\ UNCHANGED << tables, lock >>
  /\ UNCHANGED << entities, config, now, providerCalls, purchases, direct >>

\* lines 295-355: usage event and audit entry, the commit, the 200 response
RecordSuccess(r) ==
  /\ req[r].pc = "record"
  /\ EndTransaction(r, req[r].pending,
                    SuccessEvent(r, req[r].credits, req[r].input_tokens,
                                 req[r].output_tokens),
                    << AuditLog(r, "gateway.request") >>, FALSE)
  /\ req' = [req EXCEPT ![r] =
               Responded(r, 200, [@ EXCEPT !.charged = req[r].credits])]
  /\ UNCHANGED << entities, config, now, providerCalls, purchases, direct >>

(* ------------------------ the connection pool ------------------------- *)
\* db/session.py 5-10: pool_size + max_overflow connections, scaled to the
\* number of modelled requests
PoolSize == 2
\* positions at which a request's session has a connection checked out
HoldsConnection ==
  {"hierarchy", "budgets", "auto_disable", "budget_raise", "prelocked",
   "deduct_lock", "deduct_locked", "record"}
ConnectionsInUse ==
  Cardinality({ r \in Requests : req[r].pc \in HoldsConnection })
PoolHasRoom == ConnectionsInUse < PoolSize

\* a checkout that waits for a connection without a time limit
PoolWaitsForever(r) ==
  /\ FALSE
  /\ UNCHANGED vars

\* budgets/service.py 87-88 with db/session.py 5-10: the write session of
\* _auto_disable_target finds no connection within the pool's timeout; the
\* TimeoutError leaves check_budgets and the pre-check transaction, which
\* rolls back and returns its connection; the client gets 500
PoolTimeout(r) ==
  /\ req[r].pc = "auto_disable"
  /\ ~PoolHasRoom
  /\ EndTransaction(r, << >>, << >>, << >>, TRUE)
  /\ req' = [req EXCEPT ![r] = Responded(r, 500, @)]
  /\ UNCHANGED << entities, config, now, providerCalls, purchases, direct >>

(* --------------------------- the environment --------------------------- *)
PurchaseAmounts == {0, 3}
PurchaseKeys == {"p1"}

\* the purchase added to the amount of the group's existing purchase row
PurchaseTopUp ==
  /\ purchases < MaxPurchases
  /\ \E o \in Orgs, amount \in PurchaseAmounts, key \in PurchaseKeys :
       LET old == { i \in DOMAIN ledger :
                      /\ ledger[i].group_id = BillingGroupOf[o]
                      /\ ledger[i].type = "CREDIT_PURCHASE" }
       IN /\ amount > 0
          /\ ledger' =
               IF old = {}
               THEN ledger \o append_entry(ledger, BillingGroupOf[o], amount,
                                           "CREDIT_PURCHASE", key)
               ELSE LET i == CHOOSE j \in old : TRUE
                    IN [ledger EXCEPT ![i].amount = @ + amount]
  /\ purchases' = purchases + 1
  /\ UNCHANGED << usage, audit, entities, config, lock, now, req,
                  providerCalls, direct >>

\* ledger/router.py 14-32: purchase_credits for an organization's billing group
Purchase ==
  /\ purchases < MaxPurchases
  /\ \E o \in Orgs, amount \in PurchaseAmounts, key \in PurchaseKeys :
       /\ amount > 0
       /\ ledger' = ledger \o append_entry(ledger, BillingGroupOf[o], amount,
                                           "CREDIT_PURCHASE", key)
  /\ purchases' = purchases + 1
  /\ UNCHANGED << usage, audit, entities, config, lock, now, req,
                  providerCalls, direct >>

\* agents/service.py 65-80: an operator revokes an API key
RevokeKey ==
  /\ \E key \in apiKeys : apiKeys' = revoke_api_key(apiKeys, key)
  /\ UNCHANGED << tables, entities, budgets, policies, lock, now, req,
                  providerCalls, purchases, direct >>

\* a midnight at which the exhausted agents are set ACTIVE again
TickReEnables ==
  /\ now < MaxDay
  /\ now' = now + 1
  /\ agentStatus' = [a \in Agents |-> "ACTIVE"]
  /\ UNCHANGED << tables, groupActive, wsActive, orgActive, config, lock, req,
                  providerCalls, purchases, direct >>

\* midnight UTC passes
Tick ==
  /\ now < MaxDay
  /\ now' = now + 1
  /\ UNCHANGED << tables, entities, config, lock, req, providerCalls,
                  purchases, direct >>

Next ==
  \/ \E r \in Requests : Authenticate(r)
  \/ \E r \in Requests : ResolveAndPolicy(r)
  \/ \E r \in Requests : CheckBudget(r)
  \/ \E r \in Requests : AutoDisable(r)
  \/ \E r \in Requests : BudgetRaise(r)
  \/ \E r \in Requests : PreCheckLock(r)
  \/ \E r \in Requests : EndPreCheck(r)
  \/ \E r \in Requests : ProviderNotConfigured(r)
  \/ \E r \in Requests : ProviderRaises(r)
  \/ \E r \in Requests : ProviderReturns(r)
  \/ \E r \in Requests : DeductLock(r)
  \/ \E r \in Requests : DeductCheck(r)
  \/ \E r \in Requests : RecordSuccess(r)
  \/ Purchase
  \/ Tick

Spec == Init /\ [][Next]_vars


(* ============ direct ledger calls, one after another (SpecLedger) ======= *)
CallKeys == {NoKey, "k1", "k2"}
\* (amount, type) pairs passed to append_entry
AppendInputs == { <<2, "CREDIT_PURCHASE">>, <<0 - 1, "ADJUSTMENT">>,
                  <<1, "REFUND">> }
\* amounts passed to deduct_credits (its contract asks amount > 0)
DeductAmounts == {1, 3}

\* deduct_credits with the replay lookup left to append_entry, after the
\* balance check
deduct_credits_late_lookup(visible, group_id, amount, key) ==
  IF amount <= 0
  THEN [result |-> "value_error", rows |-> << >>]
  ELSE IF Insufficient(get_group_balance(visible, group_id), amount)
  THEN [result |-> "insufficient", rows |-> << >>]
  ELSE [result |-> "row",
        rows |-> append_entry(visible, group_id, 0 - amount,
                              "USAGE_DEDUCTION", key)]

\* deduct_credits run to its end in one transaction: what it returns or
\* raises, and the rows it adds
deduct_credits(visible, group_id, amount, key) ==
  IF amount <= 0
  THEN [result |-> "value_error", rows |-> << >>]
  ELSE IF ExistingByKey(visible, key) # {}
  THEN [result |-> "row", rows |-> << >>]
  ELSE IF Insufficient(get_group_balance(visible, group_id), amount)
  THEN [result |-> "insufficient", rows |-> << >>]
  ELSE [result |-> "row",
        rows |-> append_entry(visible, group_id, 0 - amount,
                              "USAGE_DEDUCTION", key)]

\* the newest row of the table returned whatever the key
ReturnedRowNewest(before, rows, key) == Len(before) + Len(rows)

\* the row a call returns: the one it added, else the one carrying the key
ReturnedRow(before, rows, key) ==
  IF rows # << >> THEN Len(before) + 1
  ELSE CHOOSE i \in ExistingByKey(before, key) : TRUE

\* a caller runs append_entry and commits
AppendCall ==
  /\ calls < MaxCalls
  /\ \E g \in Groups, in \in AppendInputs, key \in CallKeys :
       LET rows == append_entry(ledger, g, in[1], in[2], key)
       IN /\ ledger' = ledger \o rows
          /\ lastCall' = [op |-> "append", key |-> key, group_id |-> g,
                          amount |-> in[1], result |-> "row",
                          row |-> ReturnedRow(ledger, rows, key)]
  /\ calls' = calls + 1
  /\ UNCHANGED << usage, audit, entities, config, lock, now, req,
                  providerCalls, purchases, task, lastEval, admin >>

\* a caller runs deduct_credits and commits (or rolls back on the error)
DeductCall ==
  /\ calls < MaxCalls
  /\ \E g \in Groups, amount \in DeductAmounts, key \in CallKeys \ {NoKey} :
       LET out == deduct_credits(ledger, g, amount, key)
       IN /\ ledger' = ledger \o out.rows
          /\ lastCall' = [op |-> "deduct", key |-> key, group_id |-> g,
                          amount |-> amount, result |-> out.result,
                          row |-> IF out.result = "row"
                                  THEN ReturnedRow(ledger, out.rows, key)
                                  ELSE 0]
  /\ calls' = calls + 1
  /\ UNCHANGED << usage, audit, entities, config, lock, now, req,
                  providerCalls, purchases, task, lastEval, admin >>

InitLedger ==
  /\ InitTables(0)
  /\ InitEntities
  /\ budgets = {}
  /\ policies = {}
  /\ apiKeys = ApiKeyRows
  /\ lock = [k \in LockKeys |-> Free]
  /\ now = 0
  /\ req = [r \in Requests |-> IdleReq]
  /\ providerCalls = {}
  /\ purchases = 0
  /\ calls = 0
  /\ lastCall = NoCall
  /\ task = [t \in Purchasers |-> IdleTask]
  /\ lastEval = NoEval
  /\ admin = NoAdmin

NextLedger == AppendCall \/ DeductCall

SpecLedger == InitLedger /\ [][NextLedger]_vars

(* ============ the pipeline while keys are revoked (SpecAuth) ============ *)
InitAuth ==
  /\ Init
  /\ budgets = {Budget1}
  /\ policies = {}

NextAuth == Next \/ RevokeKey

SpecAuth == InitAuth /\ [][NextAuth]_vars

(* ======== concurrent purchase_credits calls (SpecRace) ================== *)
RaceKeys == {"k1", "k2"}
RaceAmounts == {2, 5}

\* ledger/router.py 19-29 and ledger/service.py 56-63: the amount is
\* validated and append_entry looks for a row carrying the key; a row found
\* is returned, else the new entry is built
AppendLookup(t) ==
  /\ task[t].pc = "idle"
  /\ \E g \in Groups, amount \in RaceAmounts, key \in RaceKeys :
       LET rows == append_entry(ledger, g, amount, "CREDIT_PURCHASE", key)
       IN task' = [task EXCEPT ![t] =
            IF rows = << >>
            THEN [@ EXCEPT !.pc = "done", !.key = key, !.result = "row"]
            ELSE [@ EXCEPT !.pc = "flush", !.key = key, !.pending = rows]]
  /\ UNCHANGED << tables, entities, config, lock, now, req, providerCalls,
                  purchases, calls, lastCall, lastEval, admin >>

\* the keys inserted by transactions that have not ended yet
UncommittedKeys(t) ==
  { task[u].key : u \in { v \in Purchasers \ {t} : task[v].pc = "flushed" } }

\* ledger/service.py 72-73 and ledger/models.py 29-31: db.flush() sends the
\* INSERT; the unique index on idempotency_key makes it wait for an
\* uncommitted row with the same key and fail when a committed one exists
AppendFlush(t) ==
  /\ task[t].pc = "flush"
  /\ task[t].key \notin UncommittedKeys(t)
  /\ task' = [task EXCEPT ![t] =
       IF ExistingByKey(ledger, task[t].key) # {}
       THEN [@ EXCEPT !.pc = "done", !.pending = << >>,
                      !.result = "IntegrityError"]
       ELSE [@ EXCEPT !.pc = "flushed"]]
  /\ UNCHANGED << tables, entities, config, lock, now, req, providerCalls,
                  purchases, calls, lastCall, lastEval, admin >>

\* ledger/router.py 30-32: db.commit() and the entry is returned
AppendCommit(t) ==
  /\ task[t].pc = "flushed"
  /\ ledger' = ledger \o task[t].pending
  /\ task' = [task EXCEPT ![t] =
       [@ EXCEPT !.pc = "done", !.pending = << >>, !.result = "row"]]
  /\ UNCHANGED << usage, audit, entities, config, lock, now, req,
                  providerCalls, purchases, calls, lastCall, lastEval, admin >>

InitRace == InitLedger

NextRace ==
  \/ \E t \in Purchasers : AppendLookup(t)
  \/ \E t \in Purchasers : AppendFlush(t)
  \/ \E t \in Purchasers : AppendCommit(t)

SpecRace == InitRace /\ [][NextRace]_vars

(* ====== concurrent deductions from a funded group (SpecDeduct) ========= *)
DeductFunding == {0, 3, 4}
\* the models a request can have been priced and served with
ServedModels ==
  { m \in ModelNames : /\ get_pricing_rule(_infer_provider(m), m) # {}
                       /\ \A o \in Orgs : AcquireProvider(o, m) = "driver" }

\* every request has passed its pre-check and waits for its provider
InitDeduct ==
  /\ \E f \in DeductFunding : InitTables(f)
  /\ InitEntities
  /\ budgets = {}
  /\ policies = {}
  /\ apiKeys = ApiKeyRows
  /\ lock = [k \in LockKeys |-> Free]
  /\ now = 0
  /\ \E agent \in [Requests -> Agents], model \in [Requests -> ServedModels] :
       req = [r \in Requests |->
                [IdleReq EXCEPT !.pc = "provider", !.request_id = r,
                                !.token = IF agent[r] = 1 THEN "cpk_a1"
                                          ELSE "cpk_a2",
                                !.agent_id = agent[r], !.model = model[r],
                                !.required = 1]]
  /\ providerCalls = {}
  /\ purchases = 0
  /\ calls = 0
  /\ lastCall = NoCall
  /\ task = [t \in Purchasers |-> IdleTask]
  /\ lastEval = NoEval
  /\ admin = NoAdmin

NextDeduct ==
  \/ \E r \in Requests : ProviderReturns(r)
  \/ \E r \in Requests : DeductLock(r)
  \/ \E r \in Requests : DeductCheck(r)
  \/ \E r \in Requests : RecordSuccess(r)

SpecDeduct == InitDeduct /\ [][NextDeduct]_vars

(* ===== two executions of the commit step with one request_id (SpecReplay) *)
ReplayFunding == {0, 2, 3}
PricedModels == { m \in ModelNames : get_pricing_rule(_infer_provider(m), m) # {} }

\* both executions stand at the provider call of the same request
InitReplay ==
  /\ \E f \in ReplayFunding : InitTables(f)
  /\ InitEntities
  /\ budgets = {}
  /\ policies = {}
  /\ apiKeys = ApiKeyRows
  /\ lock = [k \in LockKeys |-> Free]
  /\ now = 0
  /\ \E a \in Agents, m \in PricedModels :
       req = [r \in Requests |->
                [IdleReq EXCEPT !.pc = "provider", !.request_id = "r1",
                                !.token = IF a = 1 THEN "cpk_a1" ELSE "cpk_a2",
                                !.agent_id = a, !.model = m, !.required = 1]]
  /\ providerCalls = {}
  /\ purchases = 0
  /\ calls = 0
  /\ lastCall = NoCall
  /\ task = [t \in Purchasers |-> IdleTask]
  /\ lastEval = NoEval
  /\ admin = NoAdmin

NextReplay ==
  \/ \E r \in Requests : ProviderNotConfigured(r)
  \/ \E r \in Requests : ProviderRaises(r)
  \/ \E r \in Requests : ProviderReturns(r)
  \/ \E r \in Requests : DeductLock(r)
  \/ \E r \in Requests : DeductCheck(r)
  \/ \E r \in Requests : RecordSuccess(r)
  \/ Purchase

SpecReplay == InitReplay /\ [][NextReplay]_vars


(* ============================== properties ============================== *)
\* rows of a table that belong to one request
KeyRowsIn(entries, request_id) == ExistingByKey(entries, GatewayKey(request_id))
UsageRowsIn(events, request_id, status) ==
  { i \in DOMAIN events :
      events[i].request_id = request_id /\ events[i].status = status }
AllUsageRowsIn(events, request_id) ==
  { i \in DOMAIN events : events[i].request_id = request_id }
AuditRowsIn(entries, request_id) ==
  { i \in DOMAIN entries : entries[i].request_id = request_id }

(* C1: whatever the interleaving of concurrent deduct_credits calls with     *)
(* distinct keys, a call that appended left exactly one USAGE_DEDUCTION row  *)
(* of -amount, a call that raised InsufficientCreditsError left no row, and  *)
(* no group's balance is ever negative.                                      *)
DeductNeverOverdraws ==
  /\ \A g \in Groups : get_group_balance(ledger, g) >= 0
  /\ \A r \in Requests :
       /\ (req[r].pc = "done" /\ req[r].deduct = "entry") =>
            /\ Cardinality(KeyRowsIn(ledger, r)) = 1
            /\ \A i \in KeyRowsIn(ledger, r) :
                 /\ ledger[i].amount = 0 - req[r].credits
                 /\ ledger[i].type = "USAGE_DEDUCTION"
                 /\ ledger[i].group_id = BillingOfReq(r)
            /\ req[r].status = 200
       /\ req[r].deduct = "insufficient" =>
            /\ KeyRowsIn(ledger, r) = {}
            /\ req[r].status = 402

\* two concurrent deductions met: one was appended, the other was refused
DeductNeverOverdrawsWitness ==
  \E r1, r2 \in Requests :
    /\ req[r1].pc = "done" /\ req[r1].deduct = "entry"
    /\ req[r2].pc = "done" /\ req[r2].deduct = "insufficient"

(* C2: when the provider call raises, the request commits exactly one usage  *)
(* event (status ERROR, no credits) and one gateway.request_error audit row, *)
(* answers 502 and leaves the ledger as it was.                              *)
ProviderErrorRecorded ==
  /\ [](\A r \in Requests :
          req[r].status = 502 =>
            /\ Cardinality(AllUsageRowsIn(usage, r)) = 1
            /\ \A i \in AllUsageRowsIn(usage, r) :
                 usage[i].status = "ERROR" /\ usage[i].credits_charged = 0
            /\ Cardinality(AuditRowsIn(audit, r)) = 1
            /\ \A i \in AuditRowsIn(audit, r) :
                 audit[i].event_type = "gateway.request_error"
            /\ KeyRowsIn(ledger, r) = {})
  /\ [][\A r \in Requests :
          (req[r].status # 502 /\ req'[r].status = 502) =>
            /\ ledger' = ledger
            /\ req[r].pc = "provider"]_vars

ProviderErrorRecordedWitness ==
  \E r \in Requests : req[r].status = 502 /\ ledger # << >>

(* C5: a request has a committed SUCCESS usage event exactly when it has a   *)
(* committed ledger row under its key, the two appear in the same step, the  *)
(* row's amount is minus the event's credits, the response reports the same  *)
(* credits, and they are the ceiling of cost_usd * credits_per_usd.          *)
IsCeilingOfCost(e) ==
  \A rule \in get_pricing_rule(_infer_provider(e.model), e.model) :
    LET n == (e.input_tokens * rule.input_cost_per_1k
              + e.output_tokens * rule.output_cost_per_1k) * CreditsPerUsd
    IN /\ e.credits_charged * 1000 * 1000 >= n
       /\ (e.credits_charged - 1) * 1000 * 1000 < n

SuccessIffLedgerEntry ==
  /\ [](\A r \in Requests :
          LET succ == UsageRowsIn(usage, r, "SUCCESS")
              rows == KeyRowsIn(ledger, r)
          IN /\ (succ # {}) <=> (rows # {})
             /\ Cardinality(succ) <= 1
             /\ Cardinality(rows) <= 1
             /\ \A i \in succ : IsCeilingOfCost(usage[i])
             /\ \A i \in succ, j \in rows :
                  ledger[j].amount = 0 - usage[i].credits_charged
             /\ (req[r].status = 200) <=> (succ # {})
             /\ \A i \in succ :
                  req[r].status = 200 => req[r].charged = usage[i].credits_charged)
  /\ [][\A r \in Requests :
          (UsageRowsIn(usage', r, "SUCCESS") # UsageRowsIn(usage, r, "SUCCESS"))
            <=> (KeyRowsIn(ledger', r) # KeyRowsIn(ledger, r))]_vars

SuccessIffLedgerEntryWitness ==
  \E r \in Requests :
    /\ req[r].status = 200
    /\ req[r].charged = 2
    /\ KeyRowsIn(ledger, r) # {}

(* C6: after deduct_credits raised InsufficientCreditsError in the commit    *)
(* step, exactly one BUDGET_EXCEEDED usage event without credits is          *)
(* committed for the request, no ledger row is written, the answer is 402.   *)
InsufficientEventCommitted ==
  \A r \in Requests :
    (req[r].pc = "done" /\ req[r].deduct = "insufficient") =>
      /\ req[r].status = 402
      /\ KeyRowsIn(ledger, r) = {}
      /\ Cardinality(UsageRowsIn(usage, r, "BUDGET_EXCEEDED")) = 1
      /\ \A i \in UsageRowsIn(usage, r, "BUDGET_EXCEEDED") :
           usage[i].credits_charged = 0

(* C7: for every active budget, the credits of the SUCCESS usage events in   *)
(* its period window and target subtree never exceed limit_credits.          *)
BudgetsCapSpend ==
  \A b \in budgets :
    b.is_active => CurrentSpend(usage, b, now) <= b.limit_credits

(* C8: check_budgets raises only on a fetched (active, on-path) budget whose *)
(* current spend plus the required credits is above its limit, and lets a    *)
(* request through only after every fetched budget was found not above its   *)
(* limit (equality passes); the fetched budgets are all active budgets of    *)
(* the four levels of the path.                                              *)
SpendOf(b) ==
  _sum_usage_for_period(usage, b.org_id, b.workspace_id, b.agent_group_id,
                        b.agent_id, _period_start(b.period, now))

IsOnPath(b, r) ==
  /\ b.is_active
  /\ \/ b.agent_id = AgentOf(r)
     \/ b.agent_group_id = GroupOfReq(r)
     \/ b.workspace_id = WsOfReq(r)
     \/ b.org_id = OrgOfReq(r)

BudgetBlocksIffExceeded ==
  /\ [](\A r \in Requests :
          /\ req[r].pc = "budgets" =>
               req[r].toCheck \subseteq { b.id : b \in { x \in budgets : IsOnPath(x, r) } }
          /\ (req[r].blocked # None) =>
               \E b \in budgets :
                 /\ b.id = req[r].blocked
                 /\ IsOnPath(b, r)
                 /\ req[r].current_spend + req[r].required > b.limit_credits
          /\ (req[r].pc = "done" /\ req[r].blocked # None) => req[r].status = 402)
  /\ [][\A r \in Requests :
          /\ (req[r].pc = "hierarchy" /\ req'[r].pc = "budgets") =>
               req'[r].toCheck = { b.id : b \in { x \in budgets : IsOnPath(x, r) } }
          /\ (req[r].pc = "budgets" /\ req'[r].blocked # None) =>
               \E b \in budgets :
                 /\ b.id = req'[r].blocked
                 /\ req'[r].current_spend = SpendOf(b)
                 /\ SpendOf(b) + req[r].required > b.limit_credits
          /\ (req[r].pc = "budgets" /\ req'[r].pc = "budgets"
              /\ req'[r].toCheck # req[r].toCheck) =>
               \E b \in budgets :
                 /\ req[r].toCheck = req'[r].toCheck \cup {b.id}
                 /\ SpendOf(b) + req[r].required <= b.limit_credits
          /\ (req[r].pc = "budgets" /\ req'[r].pc = "prelocked") =>
               req[r].toCheck = {}]_vars

\* a request was blocked by one budget although a looser budget on its path
\* still has room for it
BudgetBlocksIffExceededWitness ==
  \E r \in Requests :
    /\ req[r].pc = "done" /\ req[r].status = 402 /\ req[r].blocked # None
    /\ \E b \in budgets :
         /\ IsOnPath(b, r)
         /\ b.id # req[r].blocked
         /\ SpendOf(b) + req[r].required <= b.limit_credits

(* C9: when check_budgets blocks on a budget with auto_disable, the target   *)
(* of that budget is disabled in committed state before the error is raised  *)
(* and is still disabled after the caller's transaction has rolled back.     *)
TargetDisabled(b) ==
  IF b.agent_id # None THEN agentStatus[b.agent_id] = "BUDGET_EXHAUSTED"
  ELSE IF b.agent_group_id # None THEN ~groupActive[b.agent_group_id]
  ELSE IF b.workspace_id # None THEN ~wsActive[b.workspace_id]
  ELSE ~orgActive[b.org_id]

AutoDisableSurvivesRollback ==
  \A r \in Requests :
    (req[r].pc \in {"budget_raise", "done"} /\ req[r].blocked # None) =>
      \A b \in budgets :
        (b.id = req[r].blocked /\ b.auto_disable) => TargetDisabled(b)

AutoDisableSurvivesRollbackWitness ==
  \E r \in Requests :
    /\ req[r].pc = "done" /\ req[r].status = 402 /\ req[r].blocked # None
    /\ \E b \in budgets : b.id = req[r].blocked /\ b.auto_disable

(* C10: a request rejected by a pre-call check (401, 403, 404, 402 from the  *)
(* budgets) never invoked the provider and has no row in the ledger, the     *)
(* usage log or the audit log; the step that rejects it changes no table.    *)
RejectedBeforeCall(rec) ==
  \/ rec.status \in {401, 403, 404}
  \/ rec.status = 402 /\ rec.blocked # None

PreCallRejectionNoEffects ==
  /\ [](\A r \in Requests :
          RejectedBeforeCall(req[r]) =>
            /\ r \notin providerCalls
            /\ KeyRowsIn(ledger, r) = {}
            /\ AllUsageRowsIn(usage, r) = {}
            /\ AuditRowsIn(audit, r) = {})
  /\ [][\A r \in Requests :
          (~RejectedBeforeCall(req[r]) /\ RejectedBeforeCall(req'[r])) =>
            /\ ledger' = ledger
            /\ usage' = usage
            /\ audit' = audit]_vars

\* one request was refused by a budget, the other by the disabled agent,
\* while the tables hold rows of neither
PreCallRejectionNoEffectsWitness ==
  \E r1, r2 \in Requests :
    /\ req[r1].status = 402 /\ req[r1].blocked # None
    /\ req[r2].status = 403


(* C3: once a row carries an idempotency key, every later append_entry or    *)
(* deduct_credits call with that key returns that row and leaves the ledger  *)
(* and every balance as they were; no key is ever carried by two rows.       *)
IdempotentReplay ==
  /\ [](\A k \in CallKeys \ {NoKey} : Cardinality(ExistingByKey(ledger, k)) <= 1)
  /\ [][(calls' = calls + 1 /\ lastCall'.key # NoKey
         /\ ExistingByKey(ledger, lastCall'.key) # {}) =>
          /\ ledger' = ledger
          /\ lastCall'.result = "row"
          /\ lastCall'.row \in ExistingByKey(ledger, lastCall'.key)
          /\ \A g \in Groups :
               get_group_balance(ledger', g) = get_group_balance(ledger, g)]_vars

\* three calls were made with one key and the ledger holds the single row of
\* the first: the last call was a replay with other arguments
IdempotentReplayWitness ==
  /\ calls = 3
  /\ Len(ledger) = 1
  /\ lastCall.key # NoKey
  /\ lastCall.result = "row"
  /\ lastCall.row = 1
  /\ ledger[1].idempotency_key = lastCall.key
  /\ ledger[1].amount # lastCall.amount

(* C4: two executions of the commit step that carry the same request_id      *)
(* never leave more than one ledger row under gateway:{request_id}, and      *)
(* when one of them has answered 200 there is exactly one, whose amount is   *)
(* the only change of the balance apart from purchases.                      *)
OneDeductionPerRequestId ==
  /\ Cardinality(KeyRowsIn(ledger, "r1")) <= 1
  /\ (\E r \in Requests : req[r].status = 200) =>
       Cardinality(KeyRowsIn(ledger, "r1")) = 1
  /\ Cardinality({ i \in DOMAIN ledger : ledger[i].type = "USAGE_DEDUCTION" }) <= 1

\* both executions answered 200, one appended the row, the other replayed it
OneDeductionPerRequestIdWitness ==
  \E r1, r2 \in Requests :
    /\ req[r1].status = 200 /\ req[r1].deduct = "entry"
    /\ req[r2].status = 200 /\ req[r2].deduct = "replay"
    /\ r1 # r2

(* C11: a request passes the pre-check transaction (and goes on to the       *)
(* provider) only when the balance of its billing group, read under the      *)
(* advisory lock, covers the estimated credits.                              *)
BalancePreCheckRejects ==
  [][\A r \in Requests :
       (req[r].pc = "prelocked" /\ req'[r].pc = "provider") =>
         get_group_balance(ledger, BillingOfReq(r)) >= req[r].required]_vars

(* C12: a request whose agent is not ACTIVE when it authenticates, or whose  *)
(* agent group, workspace or organization is disabled when the hierarchy is  *)
(* walked, is answered 403; a 403 request never reaches the provider or the  *)
(* ledger; and since nothing re-enables an agent or an ancestor, a request   *)
(* that starts after a disable has committed is rejected.                    *)
AncestorDisabled(rec) ==
  \/ ~groupActive[AgentGroupOf[rec.agent_id]]
  \/ ~wsActive[WorkspaceOf[AgentGroupOf[rec.agent_id]]]
  \/ ~orgActive[OrgOf[WorkspaceOf[AgentGroupOf[rec.agent_id]]]]

InactiveRejected ==
  /\ [](\A r \in Requests :
          req[r].status = 403 =>
            r \notin providerCalls /\ KeyRowsIn(ledger, r) = {})
  /\ [][/\ \A r \in Requests :
            /\ (/\ req[r].pc = "idle" /\ req'[r].pc # "idle"
                /\ req'[r].agent_id # None
                /\ agentStatus[req'[r].agent_id] # "ACTIVE") =>
                 req'[r].pc = "done" /\ req'[r].status = 403
            /\ (/\ req[r].pc = "hierarchy" /\ req'[r].pc # "hierarchy"
                /\ AncestorDisabled(req[r])) =>
                 req'[r].pc = "done" /\ req'[r].status = 403
        /\ \A a \in Agents : agentStatus[a] # "ACTIVE" => agentStatus'[a] # "ACTIVE"
        /\ \A g \in AgentGroups : ~groupActive[g] => ~groupActive'[g]
        /\ \A w \in Workspaces : ~wsActive[w] => ~wsActive'[w]
        /\ \A o \in Orgs : ~orgActive[o] => ~orgActive'[o]]_vars

\* one request was blocked by a budget that disables an agent group, and a
\* later request of an ACTIVE agent in that group was answered 403
InactiveRejectedWitness ==
  \E r1, r2 \in Requests :
    /\ req[r1].status = 402 /\ req[r1].blocked # None
    /\ req[r2].pc = "done" /\ req[r2].status = 403
    /\ req[r2].agent_id # None
    /\ agentStatus[req[r2].agent_id] = "ACTIVE"
    /\ ~groupActive[AgentGroupOf[req[r2].agent_id]]

(* C13: a request is answered 401 exactly when its token lacks the cpk_      *)
(* prefix or no active key row carries it (unknown or revoked); a 401        *)
(* request reaches neither the provider nor a table; a revoked row is never  *)
(* active again, so once a revoke has committed every later request with     *)
(* that key gets 401.                                                        *)
ActiveTokens(rows) == { k.token : k \in { x \in rows : x.is_active } }
RevokedTokens(rows) == { k.token : k \in { x \in rows : ~x.is_active } }

RevokedKeyRejected ==
  /\ [](\A r \in Requests :
          /\ (req[r].token # "" /\ ~HasCpkPrefix(req[r].token)) =>
               req[r].status = 401
          /\ req[r].status = 401 =>
               /\ r \notin providerCalls
               /\ KeyRowsIn(ledger, r) = {}
               /\ AllUsageRowsIn(usage, r) = {}
               /\ AuditRowsIn(audit, r) = {})
  /\ [][/\ \A r \in Requests :
            (req[r].pc = "idle" /\ req'[r].pc # "idle") =>
              /\ req'[r].token \in RevokedTokens(apiKeys) =>
                   req'[r].pc = "done" /\ req'[r].status = 401
              /\ (req'[r].status = 401) <=>
                   \/ ~HasCpkPrefix(req'[r].token)
                   \/ req'[r].token \notin ActiveTokens(apiKeys)
        /\ RevokedTokens(apiKeys) \subseteq RevokedTokens(apiKeys')
        /\ ActiveTokens(apiKeys') \subseteq ActiveTokens(apiKeys)]_vars

\* a key that had authenticated one request was revoked and then refused
RevokedKeyRejectedWitness ==
  \E r1, r2 \in Requests :
    /\ req[r1].token = "cpk_a1" /\ req[r1].status = 200
    /\ req[r2].token = "cpk_a1" /\ req[r2].status = 401
    /\ "cpk_a1" \in RevokedTokens(apiKeys)

(* C14: for every billing group at most one transaction is between taking    *)
(* the group's advisory lock and its own end, be it a pre-check or a         *)
(* deduct_credits call, and that transaction is the holder of the lock.      *)
InLockSection(r) == req[r].pc \in {"prelocked", "deduct_locked", "record"}

LockSectionExclusive ==
  /\ \A r \in Requests :
       InLockSection(r) => lock[LockKey(BillingOfReq(r))] = r
  /\ \A r1, r2 \in Requests :
       (r1 # r2 /\ InLockSection(r1) /\ InLockSection(r2)) =>
         BillingOfReq(r1) # BillingOfReq(r2)
  /\ \A k \in LockKeys : lock[k] # Free => InLockSection(lock[k])

\* a deduction holds the lock with its row pending while the pre-check of
\* another request of the same group waits for it
LockSectionExclusiveWitness ==
  \E r1, r2 \in Requests :
    /\ req[r1].pc = "record" /\ req[r1].pending # << >>
    /\ req[r2].pc = "budgets" /\ req[r2].toCheck = {}
    /\ BillingOfReq(r1) = BillingOfReq(r2)
    /\ lock[LockKey(BillingOfReq(r2))] = r1

(* C15: when the amounts of the concurrent deduct_credits calls on a group   *)
(* (distinct keys) add up to no more than the balance the group was funded   *)
(* with, no call raises InsufficientCreditsError, and once all have ended    *)
(* the balance is the funding minus the sum of the amounts.                  *)
RECURSIVE SumOfCredits(_)
SumOfCredits(rs) ==
  IF rs = {} THEN 0
  ELSE LET r == CHOOSE x \in rs : TRUE
       IN req[r].credits + SumOfCredits(rs \ {r})

\* the requests that called deduct_credits with a positive amount
DeductCallers == { r \in Requests : req[r].credits # None /\ req[r].credits > 0 }

FundingOf(g) ==
  SumAmounts(ledger, { i \in DOMAIN ledger :
                         ledger[i].group_id = g /\ ledger[i].type = "CREDIT_PURCHASE" })

DeductsWithinBalanceSucceed ==
  \A g \in Groups :
    LET callers == { r \in DeductCallers : BillingOfReq(r) = g }
    IN (/\ \A r \in Requests : req[r].pc # "provider"
        /\ SumOfCredits(callers) <= FundingOf(g)) =>
         /\ \A r \in callers : req[r].deduct # "insufficient"
         /\ (\A r \in callers : req[r].pc = "done") =>
              /\ \A r \in callers : req[r].status = 200
              /\ get_group_balance(ledger, g) = FundingOf(g) - SumOfCredits(callers)

\* two deductions of 1 and 2 credits have emptied a group funded with 3
DeductsWithinBalanceSucceedWitness ==
  /\ \A r \in Requests : req[r].pc = "done" /\ req[r].status = 200
  /\ \E r1, r2 \in Requests : req[r1].credits = 1 /\ req[r2].credits = 2
  /\ FundingOf(1) = 3
  /\ get_group_balance(ledger, 1) = 0

(* C16: when concurrent append_entry calls race to insert the same new      *)
(* idempotency key, every call ends by returning a row (the loser the        *)
(* winner's), none fails with a database error, and exactly one row carries  *)
(* the key.                                                                  *)
DuplicateKeyRaceIsReplay ==
  /\ \A t \in Purchasers :
       task[t].pc = "done" =>
         /\ task[t].result = "row"
         /\ Cardinality(ExistingByKey(ledger, task[t].key)) = 1
  /\ \A k \in RaceKeys : Cardinality(ExistingByKey(ledger, k)) <= 1

(* C17: after any sequence of ledger calls the balance of a group is the sum *)
(* of the amounts of exactly the entries of that group, 0 when it has none;  *)
(* a call that appends an entry to one group moves that group's balance by   *)
(* the entry's amount and leaves every other group's balance as it was.      *)
RECURSIVE AmountsUpTo(_, _, _)
AmountsUpTo(entries, g, n) ==
  IF n = 0 THEN 0
  ELSE AmountsUpTo(entries, g, n - 1)
       + (IF entries[n].group_id = g THEN entries[n].amount ELSE 0)

BalanceIsSumOfGroupEntries ==
  /\ [](\A g \in Groups :
          /\ get_group_balance(ledger, g) = AmountsUpTo(ledger, g, Len(ledger))
          /\ (\A i \in DOMAIN ledger : ledger[i].group_id # g) =>
               get_group_balance(ledger, g) = 0)
  /\ [][(calls' = calls + 1 /\ Len(ledger') = Len(ledger) + 1) =>
          \A g \in Groups :
            get_group_balance(ledger', g) =
              get_group_balance(ledger, g)
              + (IF g = lastCall'.group_id
                 THEN ledger'[Len(ledger')].amount ELSE 0)]_vars

\* three entries, spread over both groups, which hold different balances
BalanceIsSumOfGroupEntriesWitness ==
  /\ Len(ledger) = 3
  /\ get_group_balance(ledger, 1) = 1
  /\ get_group_balance(ledger, 2) = 2
  /\ lastCall.op = "deduct"

(* C18: the ledger is append-only: whatever step is taken (a deduction of    *)
(* the gateway, a replay of one, a credit purchase), every entry that was    *)
(* in the ledger is still there with the same fields, and entries are only   *)
(* added at the end.                                                         *)
LedgerAppendOnly ==
  [][/\ Len(ledger') >= Len(ledger)
     /\ \A i \in DOMAIN ledger : ledger'[i] = ledger[i]]_vars

\* a funded group after a deduction, its replay and a purchase
LedgerAppendOnlyWitness ==
  /\ Len(ledger) = 3
  /\ \E r1, r2 \in Requests :
       /\ req[r1].status = 200 /\ req[r1].deduct = "entry"
       /\ req[r2].status = 200 /\ req[r2].deduct = "replay"
  /\ purchases = 1

(* C19: a request sent with stream=true is rejected: the provider is never   *)
(* invoked for it and it is charged nothing.                                 *)
StreamRejected ==
  \A r \in Requests :
    RequestStream[r] =>
      /\ r \notin providerCalls
      /\ KeyRowsIn(ledger, r) = {}
      /\ req[r].status # 200

(* C20: when no provider driver can be acquired for the provider inferred    *)
(* from the model, the request is answered 503 (and not 502).                *)
NotConfiguredAnswers503 ==
  [][\A r \in Requests :
       (/\ req[r].pc = "provider" /\ req'[r].pc = "done"
        /\ AcquireProvider(OrgOfReq(r), req[r].model) = "ValueError") =>
         req'[r].status = 503]_vars

(* ========================= the management plane ========================= *)
MaxPolicies == 3        \* rows of the policies table in one behaviour

Policy3 ==
  [id |-> 3, org_id |-> None, workspace_id |-> 1, agent_group_id |-> None,
   agent_id |-> None, has_allowed |-> TRUE,
   allowed_models |-> {GptModel, MockModel},
   max_input_tokens |-> 1000, max_output_tokens |-> None, rpm_limit |-> 30,
   is_active |-> TRUE]
Policy4 ==
  [id |-> 4, org_id |-> None, workspace_id |-> None, agent_group_id |-> 1,
   agent_id |-> None, has_allowed |-> TRUE,
   allowed_models |-> {ClaudeModel, GptModel},
   max_input_tokens |-> 400, max_output_tokens |-> 0, rpm_limit |-> None,
   is_active |-> TRUE]
Policy5 ==
  [id |-> 5, org_id |-> None, workspace_id |-> None, agent_group_id |-> None,
   agent_id |-> 2, has_allowed |-> TRUE, allowed_models |-> {},
   max_input_tokens |-> None, max_output_tokens |-> 100, rpm_limit |-> 10,
   is_active |-> FALSE]
Policy6 ==
  [id |-> 6, org_id |-> None, workspace_id |-> None, agent_group_id |-> 2,
   agent_id |-> None, has_allowed |-> FALSE, allowed_models |-> {},
   max_input_tokens |-> None, max_output_tokens |-> None, rpm_limit |-> None,
   is_active |-> TRUE]
\* the rows the policies table may hold
PolicyPool == PolicyUniverse \cup {Policy3, Policy4, Policy5, Policy6}

\* request bodies that do not name exactly one target
PolicyNoTarget == [Policy6 EXCEPT !.id = 7, !.agent_group_id = None]
PolicyTwoTargets == [Policy1 EXCEPT !.id = 8, !.workspace_id = 1]
\* the bodies POST /policies may receive (the id is the row's new uuid)
PolicyBodies == PolicyPool \cup {PolicyNoTarget, PolicyTwoTargets}

Users == {"owner", "outsider"}
OrgOwner == (1 :> "owner")                \* Organization.owner_id
UnknownId == 9                            \* an id no row carries

\* core/tenancy.py: 200 when the user owns the org of the target, else the
\* status of the error raised
require_owned_org(org_id, user_id) ==
  IF org_id \notin Orgs THEN 404
  ELSE IF OrgOwner[org_id] # user_id THEN 403
  ELSE 200

require_owned_workspace(workspace_id, user_id) ==
  IF workspace_id \notin Workspaces THEN 404
  ELSE IF OrgOwner[OrgOf[workspace_id]] # user_id THEN 403
  ELSE 200

require_owned_agent_group(agent_group_id, user_id) ==
  IF agent_group_id \notin AgentGroups THEN 404
  ELSE IF OrgOwner[OrgOf[WorkspaceOf[agent_group_id]]] # user_id THEN 403
  ELSE 200

require_owned_agent(agent_id, user_id) ==
  IF agent_id \notin Agents THEN 404
  ELSE IF OrgOwner[OrgOf[WorkspaceOf[AgentGroupOf[agent_id]]]] # user_id
  THEN 403
  ELSE 200

\* the if/elif chain of the policy and budget routes: the first target that
\* is set decides whose ownership is checked; none set answers 400
RequireOwnedTarget(t, user_id) ==
  IF t.org_id # None THEN require_owned_org(t.org_id, user_id)
  ELSE IF t.workspace_id # None
  THEN require_owned_workspace(t.workspace_id, user_id)
  ELSE IF t.agent_group_id # None
  THEN require_owned_agent_group(t.agent_group_id, user_id)
  ELSE IF t.agent_id # None THEN require_owned_agent(t.agent_id, user_id)
  ELSE 400

\* how many of the four target fields are set
TargetCount(t) ==
  Cardinality({ f \in {"org_id", "workspace_id", "agent_group_id", "agent_id"} :
                  t[f] # None })

\* policies/schemas.py: PolicyCreate declares four optional targets and no
\* validator, so every body passes
PolicyCreate(body) == "ok"

\* policies/models.py: ck_policies_single_target
ck_policies_single_target(row) == TargetCount(row) = 1

\* the organization the first target that is set belongs to, None when
\* no target is set or no such row exists
TargetOrg(t) ==
  IF t.org_id # None
  THEN IF t.org_id \in Orgs THEN t.org_id ELSE None
  ELSE IF t.workspace_id # None
  THEN IF t.workspace_id \in Workspaces THEN OrgOf[t.workspace_id] ELSE None
  ELSE IF t.agent_group_id # None
  THEN IF t.agent_group_id \in AgentGroups
       THEN OrgOf[WorkspaceOf[t.agent_group_id]] ELSE None
  ELSE IF t.agent_id # None
  THEN IF t.agent_id \in Agents
       THEN OrgOf[WorkspaceOf[AgentGroupOf[t.agent_id]]] ELSE None
  ELSE None

\* what a management route answered: to whom, about which organization,
\* with which status, and the data in the body (a balance, a set of rows)
Response(route, user, org, status, targets, balance, rows) ==
  [route |-> route, user |-> user, org |-> org, status |-> status,
   targets |-> targets, balance |-> balance, rows |-> rows]

\* everything the management routes of policies never touch
gateway == << tables, entities, lock, now, req, providerCalls, purchases,
              calls, lastCall, task >>

\* POST /policies: schema, ownership of the first target, INSERT
create_policy(user, body) ==
  /\ Cardinality(policies) < MaxPolicies
  /\ body.id \notin { p.id : p \in policies }
  /\ LET status ==
           IF PolicyCreate(body) # "ok" THEN 422
           ELSE IF RequireOwnedTarget(body, user) # 200
           THEN RequireOwnedTarget(body, user)
           ELSE IF ~ck_policies_single_target(body) THEN 500
           ELSE 201
     IN /\ policies' = IF status = 201
                       THEN policies \cup {[body EXCEPT !.is_active = TRUE]}
                       ELSE policies
        /\ admin' = [admin EXCEPT !.response =
             Response("create_policy", user, TargetOrg(body), status,
                      TargetCount(body), None, {})]
  /\ UNCHANGED << gateway, budgets, apiKeys, lastEval >>

(* ============ the policy engine called directly (SpecPolicy) ============ *)
\* every order in which a SELECT without ORDER BY may return the rows S
Orders(S) ==
  { f \in [1..Cardinality(S) -> S] :
      \A i, j \in 1..Cardinality(S) : i # j => f[i] # f[j] }

\* the for loop of _merge_policies over the fetched list
RECURSIVE MergeLoop(_, _)
MergeLoop(m, rows) ==
  IF rows = << >> THEN m
  ELSE MergeLoop(MergeOne(m, Head(rows)), Tail(rows))

\* the rows the query of get_effective_policy selects for an agent's path
FetchPolicies(ps, agent_id) ==
  { p \in ps :
      PolicyOnPath(p, OrgOf[WorkspaceOf[AgentGroupOf[agent_id]]],
                   WorkspaceOf[AgentGroupOf[agent_id]],
                   AgentGroupOf[agent_id], agent_id) }

\* get_effective_policy for the path of an agent, as chat_completions calls it
EffectiveFor(ps, agent_id) ==
  get_effective_policy(ps, OrgOf[WorkspaceOf[AgentGroupOf[agent_id]]],
                       WorkspaceOf[AgentGroupOf[agent_id]],
                       AgentGroupOf[agent_id], agent_id)

\* get_effective_policy: the rows come back in some order and are merged
EffectivePolicyCall ==
  /\ \E a \in Agents :
       \E rows \in Orders(FetchPolicies(policies, a)) :
         lastEval' = [op |-> "get_effective_policy", table |-> policies,
                      agent_id |-> a, rows |-> rows,
                      result |-> MergeLoop(EmptyPolicy, rows)]
  /\ UNCHANGED << gateway, config, admin >>

\* max_tokens values a caller may hand to enforce_policy
EnforceRequested == {None, 0, 300, 1000}

\* enforce_policy with the model check first: the 403 or the returned limit
EnforceCall ==
  /\ \E a \in Agents, model \in ModelNames, requested \in EnforceRequested :
       LET policy == EffectiveFor(policies, a)
       IN lastEval' =
            [op |-> "enforce_policy", policy |-> policy, model |-> model,
             requested |-> requested,
             raised |-> PolicyViolation(policy, model),
             result |-> IF PolicyViolation(policy, model) THEN None
                        ELSE enforce_policy(policy, requested)]
  /\ UNCHANGED << gateway, config, admin >>

InitPolicy ==
  /\ InitTables(0)
  /\ InitEntities
  /\ budgets = {}
  /\ policies \in { ps \in SUBSET PolicyPool : Cardinality(ps) < MaxPolicies }
  /\ apiKeys = ApiKeyRows
  /\ lock = [k \in LockKeys |-> Free]
  /\ now = 0
  /\ req = [r \in Requests |-> IdleReq]
  /\ providerCalls = {}
  /\ purchases = 0
  /\ calls = 0
  /\ lastCall = NoCall
  /\ task = [t \in Purchasers |-> IdleTask]
  /\ lastEval = NoEval
  /\ admin = NoAdmin

NextPolicy ==
  \/ \E body \in PolicyBodies : create_policy("owner", body)
  \/ EffectivePolicyCall
  \/ EnforceCall

SpecPolicy == InitPolicy /\ [][NextPolicy]_vars

\* the fields of an effective policy that carry a numeric limit
LimitFields == {"max_input_tokens", "max_output_tokens", "rpm_limit"}
\* the non-null values the rows S contribute to a numeric field
Contributions(S, f) == { p[f] : p \in { q \in S : q[f] # None } }
\* the active rows of a table that target a node of the path of agent a
ActiveOnPath(ps, a) ==
  { p \in ps : /\ p.is_active
               /\ \/ p.agent_id = a
                  \/ p.agent_group_id = AgentGroupOf[a]
                  \/ p.workspace_id = WorkspaceOf[AgentGroupOf[a]]
                  \/ p.org_id = OrgOf[WorkspaceOf[AgentGroupOf[a]]] }
\* e is the most restrictive merge of the rows S
IsMergeOf(e, S) ==
  /\ e.has_allowed = (\E p \in S : p.has_allowed)
  /\ e.has_allowed =>
       e.allowed_models =
         { m \in ModelNames :
             \A p \in S : p.has_allowed => m \in p.allowed_models }
  /\ \A f \in LimitFields :
       IF Contributions(S, f) = {} THEN e[f] = None
       ELSE /\ e[f] \in Contributions(S, f)
            /\ \A v \in Contributions(S, f) : e[f] <= v

(* C21: the effective policy of a path is the merge of all active policies  *)
(* targeting its org, workspace, agent group or agent: allowed_models is the *)
(* intersection of the non-null lists (null when no policy supplies one; an  *)
(* empty intersection blocks every model) and each numeric limit is the      *)
(* minimum of the non-null contributions (null if none); whatever the order  *)
(* in which the rows are fetched, the result is that merge.                  *)
EffectivePolicyIsMerge ==
  lastEval.op = "get_effective_policy" =>
    /\ IsMergeOf(lastEval.result,
                 ActiveOnPath(lastEval.table, lastEval.agent_id))
    /\ lastEval.result = EffectiveFor(lastEval.table, lastEval.agent_id)
    /\ (lastEval.result.has_allowed /\ lastEval.result.allowed_models = {}) =>
         \A m \in ModelNames : PolicyViolation(lastEval.result, m)

\* three rows were fetched, not in the order of their ids, and two allowed
\* lists with no common model were merged
EffectivePolicyIsMergeWitness ==
  /\ lastEval.op = "get_effective_policy"
  /\ Len(lastEval.rows) = 3
  /\ lastEval.rows[1].id > lastEval.rows[2].id
  /\ lastEval.result.has_allowed
  /\ lastEval.result.allowed_models = {}
  /\ lastEval.result.max_output_tokens = 0

\* new is at least as restrictive as old (null reads as no restriction)
Tighter(new, old) ==
  /\ old.has_allowed =>
       (new.has_allowed /\ new.allowed_models \subseteq old.allowed_models)
  /\ \A f \in LimitFields : old[f] # None => (new[f] # None /\ new[f] <= old[f])

(* C22: adding one more active policy at any level of a path never loosens   *)
(* the effective policy of that path: the new allowed_models is a subset of  *)
(* the old one (null = all models) and each numeric limit is at most the old *)
(* one (null = unbounded), whatever the order the rows are fetched in.       *)
AddingPolicyNeverLoosens ==
  [][ (\E p \in policies' : /\ p \notin policies
                            /\ p.is_active
                            /\ policies' = policies \cup {p})
      => \A a \in Agents :
           \A new \in Orders(FetchPolicies(policies', a)),
              old \in Orders(FetchPolicies(policies, a)) :
             Tighter(MergeLoop(EmptyPolicy, new), MergeLoop(EmptyPolicy, old))
    ]_vars

\* a policy was created on a path that already had one, and the path's
\* allowed list shrank to the models both allow
AddingPolicyNeverLoosensWitness ==
  /\ admin.response.route = "create_policy"
  /\ admin.response.status = 201
  /\ {Policy1, Policy3} \subseteq policies
  /\ EffectiveFor(policies, 1).allowed_models = {MockModel}
  /\ EffectiveFor(policies, 1).max_output_tokens = 500
  /\ EffectiveFor(policies, 1).max_input_tokens = 1000

(* C23: enforce_policy raises 403 exactly when the effective allowed_models  *)
(* is non-null and does not contain the requested model; otherwise it        *)
(* returns the minimum of the non-null values among requested_max_tokens and *)
(* the policy's max_output_tokens, and null when both are null.              *)
EnforcePolicyContract ==
  lastEval.op = "enforce_policy" =>
    LET limits == { v \in {lastEval.requested,
                           lastEval.policy.max_output_tokens} : v # None }
    IN /\ lastEval.raised =
            (/\ lastEval.policy.has_allowed
             /\ lastEval.model \notin lastEval.policy.allowed_models)
       /\ ~lastEval.raised =>
            IF limits = {} THEN lastEval.result = None
            ELSE /\ lastEval.result \in limits
                 /\ \A v \in limits : lastEval.result <= v

\* an allowed model was requested with fewer tokens than the policy grants
EnforcePolicyContractWitness ==
  /\ lastEval.op = "enforce_policy"
  /\ ~lastEval.raised
  /\ lastEval.policy.has_allowed
  /\ lastEval.policy.max_output_tokens = 500
  /\ lastEval.requested = 300
  /\ lastEval.result = 300

(* ============== the cost engine called directly (SpecCost) ============== *)
\* token counts a provider may report and conversion rates of organizations
CostTokens == {0, 1, 100, 200, 333, 5000, 10000}
CreditRates == {1, 50, 100}

\* calculate_cost for reported usage, then cost_to_credits at some rate
CostCall ==
  /\ \E rule \in PricingRules, input_tokens \in CostTokens,
        output_tokens \in CostTokens, rate \in CreditRates :
       LET cost == calculate_cost(rule, input_tokens, output_tokens)
       IN lastEval' = [op |-> "cost_to_credits", cost |-> cost, rate |-> rate,
                       result |-> cost_to_credits(cost, rate)]
  /\ UNCHANGED << gateway, config, admin >>

InitCost == InitLedger

NextCost == CostCall

SpecCost == InitCost /\ [][NextCost]_vars

\* one USD in the unit calculate_cost counts in
MicroUsd == 1000 * 1000

(* C25: for every non-negative cost x and positive rate r, cost_to_credits   *)
(* returns the integer c with c >= x*r and c - x*r < 1 (costs are counted in *)
(* millionths of a USD, so both sides are scaled by 10^6); a zero cost gives *)
(* zero credits.                                                             *)
CostToCreditsIsCeiling ==
  lastEval.op = "cost_to_credits" =>
    /\ lastEval.result * MicroUsd >= lastEval.cost * lastEval.rate
    /\ (lastEval.result - 1) * MicroUsd < lastEval.cost * lastEval.rate
    /\ lastEval.cost = 0 => lastEval.result = 0

\* 0.0005 USD at 100 credits per USD is 0.05 credits and is charged 1
CostToCreditsIsCeilingWitness ==
  /\ lastEval.op = "cost_to_credits"
  /\ lastEval.cost = 500
  /\ lastEval.rate = 100
  /\ lastEval.result = 1

(* ====== requests on paths with an output limit of zero (SpecTokens) ===== *)
\* policy tables with a max_output_tokens of 0 on the path of agent 1
TokenPolicyConfigs == { {Policy4}, {Policy3, Policy4} }

InitTokens ==
  /\ InitTables(0)
  /\ InitEntities
  /\ budgets = {}
  /\ policies \in TokenPolicyConfigs
  /\ apiKeys = ApiKeyRows
  /\ lock = [k \in LockKeys |-> Free]
  /\ now = 0
  /\ req = [r \in Requests |-> IdleReq]
  /\ providerCalls = {}
  /\ purchases = 0
  /\ calls = 0
  /\ lastCall = NoCall
  /\ task = [t \in Purchasers |-> IdleTask]
  /\ lastEval = NoEval
  /\ admin = NoAdmin

NextTokens ==
  \/ \E r \in Requests : Authenticate(r)
  \/ \E r \in Requests : ResolveAndPolicy(r)
  \/ \E r \in Requests : PreCheckLock(r)
  \/ \E r \in Requests : EndPreCheck(r)
  \/ \E r \in Requests : ProviderNotConfigured(r)
  \/ \E r \in Requests : ProviderRaises(r)
  \/ \E r \in Requests : ProviderReturns(r)
  \/ \E r \in Requests : DeductLock(r)
  \/ \E r \in Requests : DeductCheck(r)
  \/ \E r \in Requests : RecordSuccess(r)
  \/ Purchase

SpecTokens == InitTokens /\ [][NextTokens]_vars

(* C24: whenever the gateway calls the provider for a request on a path      *)
(* whose effective policy has a max_output_tokens (any value, 0 included),   *)
(* the call carries a max_tokens and it is not greater than that limit.      *)
ProviderCalledWithinLimit ==
  [][ \A r \in Requests :
        (r \notin providerCalls /\ r \in providerCalls') =>
          LET policy == EffectiveFor(policies, AgentOf(r))
          IN policy.max_output_tokens # None =>
               /\ req[r].max_tokens # None
               /\ req[r].max_tokens <= policy.max_output_tokens
    ]_vars

(* ========= the management routes called by two users (SpecAdmin) ======== *)
MaxWorkspaces == 1      \* workspaces created in one behaviour

\* request bodies of POST /budgets that do not name exactly one target
BudgetNoTarget == [Budget1 EXCEPT !.id = 7, !.agent_id = None]
BudgetTwoTargets == [Budget2 EXCEPT !.id = 8, !.agent_id = 1]
BudgetBodies == {Budget1, Budget2, BudgetNoTarget, BudgetTwoTargets}
\* the bodies of POST /policies sent in SpecAdmin
AdminPolicyBodies == {Policy1, Policy2, PolicyNoTarget, PolicyTwoTargets}

NoTarget ==
  [org_id |-> None, workspace_id |-> None, agent_group_id |-> None,
   agent_id |-> None]
\* the query parameters of the list routes
ListTargets ==
  { NoTarget, [NoTarget EXCEPT !.org_id = 1],
    [NoTarget EXCEPT !.agent_id = 1],
    [NoTarget EXCEPT !.org_id = 1, !.agent_id = 1],
    [NoTarget EXCEPT !.org_id = UnknownId] }
\* the ids a path parameter may carry
OrgIds == Orgs \cup {UnknownId}
AgentIds == Agents \cup {UnknownId}

\* budgets/schemas.py: validate_single_target
BudgetCreate(body) ==
  IF TargetCount(body) # 1 THEN "ValidationError" ELSE "ok"

\* POST /budgets: schema, ownership of the first target, INSERT
create_budget(user, body) ==
  /\ Cardinality(budgets) < MaxBudgets
  /\ body.id \notin { b.id : b \in budgets }
  /\ LET status ==
           IF BudgetCreate(body) # "ok" THEN 422
           ELSE IF RequireOwnedTarget(body, user) # 200
           THEN RequireOwnedTarget(body, user)
           ELSE 201
     IN /\ budgets' = IF status = 201
                      THEN budgets \cup {[body EXCEPT !.is_active = TRUE]}
                      ELSE budgets
        /\ admin' = [admin EXCEPT !.response =
             Response("create_budget", user, TargetOrg(body), status,
                      TargetCount(body), None, {})]
  /\ UNCHANGED << gateway, policies, apiKeys, lastEval >>

\* list_policies_for_target / list_budgets_for_target: the rows of the first
\* target that is set
RowsForTarget(rows, t) ==
  IF t.org_id # None THEN { x \in rows : x.org_id = t.org_id }
  ELSE IF t.workspace_id # None
  THEN { x \in rows : x.workspace_id = t.workspace_id }
  ELSE IF t.agent_group_id # None
  THEN { x \in rows : x.agent_group_id = t.agent_group_id }
  ELSE IF t.agent_id # None THEN { x \in rows : x.agent_id = t.agent_id }
  ELSE {}

\* the status of GET /policies and GET /budgets
ListStatus(user, t) ==
  IF TargetCount(t) # 1 THEN 400
  ELSE RequireOwnedTarget(t, user)

\* GET /policies
list_policies(user, t) ==
  /\ admin' = [admin EXCEPT !.response =
       Response("list_policies", user, TargetOrg(t), ListStatus(user, t),
                TargetCount(t), None,
                IF ListStatus(user, t) = 200
                THEN { x.id : x \in RowsForTarget(policies, t) } ELSE {})]
  /\ UNCHANGED << gateway, config, lastEval >>

\* GET /budgets
list_budgets(user, t) ==
  /\ admin' = [admin EXCEPT !.response =
       Response("list_budgets", user, TargetOrg(t), ListStatus(user, t),
                TargetCount(t), None,
                IF ListStatus(user, t) = 200
                THEN { x.id : x \in RowsForTarget(budgets, t) } ELSE {})]
  /\ UNCHANGED << gateway, config, lastEval >>

\* GET /orgs/{org_id}/balance: the organization is loaded and the balance of
\* its billing group returned, whoever asks
get_org_balance(user, org_id) ==
  /\ admin' = [admin EXCEPT !.response =
       IF org_id \notin Orgs
       THEN Response("get_org_balance", user, None, 404, 1, None, {})
       ELSE Response("get_org_balance", user, org_id, 200, 1,
                     get_group_balance(ledger, BillingGroupOf[org_id]), {})]
  /\ UNCHANGED << gateway, config, lastEval >>

\* the workspaces table: the rows of the hierarchy and those created since
WorkspaceRows == { [id |-> w, org_id |-> OrgOf[w]] : w \in Workspaces }
                   \cup admin.workspaces

\* POST /orgs/{org_id}/workspaces: the row is inserted, whoever asks; the
\* foreign key refuses an organization that does not exist
create_workspace(user, org_id) ==
  /\ Cardinality(admin.workspaces) < MaxWorkspaces
  /\ admin' =
       IF org_id \notin Orgs
       THEN [admin EXCEPT !.response =
               Response("create_workspace", user, None, 500, 1, None, {})]
       ELSE [workspaces |-> admin.workspaces \cup
                 {[id |-> 10 + Cardinality(admin.workspaces),
                   org_id |-> org_id]},
             response |->
               Response("create_workspace", user, org_id, 201, 1, None,
                        {10 + Cardinality(admin.workspaces)})]
  /\ UNCHANGED << gateway, config, lastEval >>

\* GET /orgs/{org_id}/workspaces
list_workspaces(user, org_id) ==
  /\ admin' = [admin EXCEPT !.response =
       Response("list_workspaces", user,
                IF org_id \in Orgs THEN org_id ELSE None, 200, 1, None,
                { w.id : w \in { x \in WorkspaceRows : x.org_id = org_id } })]
  /\ UNCHANGED << gateway, config, lastEval >>

\* GET /orgs/{org_id}/credentials: credentials/router.py registers the path
\* for POST only, so the framework answers 405 before any handler runs
list_credentials(user, org_id) ==
  /\ admin' = [admin EXCEPT !.response =
       Response("list_credentials", user,
                IF org_id \in Orgs THEN org_id ELSE None, 405, 1, None, {})]
  /\ UNCHANGED << gateway, config, lastEval >>

\* GET /agents/{agent_id}/keys: key_router registers POST and DELETE only
list_api_keys(user, agent_id) ==
  /\ admin' = [admin EXCEPT !.response =
       Response("list_api_keys", user,
                TargetOrg([NoTarget EXCEPT !.agent_id = agent_id]), 405, 1,
                None, {})]
  /\ UNCHANGED << gateway, config, lastEval >>

AdminFunding == {3}

InitAdmin ==
  /\ \E f \in AdminFunding : InitTables(f)
  /\ InitEntities
  /\ budgets = {}
  /\ policies = {}
  /\ apiKeys = ApiKeyRows
  /\ lock = [k \in LockKeys |-> Free]
  /\ now = 0
  /\ req = [r \in Requests |-> IdleReq]
  /\ providerCalls = {}
  /\ purchases = 0
  /\ calls = 0
  /\ lastCall = NoCall
  /\ task = [t \in Purchasers |-> IdleTask]
  /\ lastEval = NoEval
  /\ admin = NoAdmin

NextAdmin ==
  \/ \E u \in Users, o \in OrgIds : get_org_balance(u, o)
  \/ \E u \in Users, o \in OrgIds : create_workspace(u, o)
  \/ \E u \in Users, o \in OrgIds : list_workspaces(u, o)
  \/ \E u \in Users, body \in AdminPolicyBodies : create_policy(u, body)
  \/ \E u \in Users, t \in ListTargets : list_policies(u, t)
  \/ \E u \in Users, body \in BudgetBodies : create_budget(u, body)
  \/ \E u \in Users, t \in ListTargets : list_budgets(u, t)
  \/ \E u \in Users, o \in OrgIds : list_credentials(u, o)
  \/ \E u \in Users, a \in AgentIds : list_api_keys(u, a)

SpecAdmin == InitAdmin /\ [][NextAdmin]_vars

\* the routes the claim names
OrgScopedRoutes ==
  {"get_org_balance", "create_workspace", "list_policies", "list_budgets",
   "list_credentials", "list_api_keys"}

(* C26: every organization-scoped management route (read org balance,       *)
(* create workspace, list policies, list budgets, list credentials, list an  *)
(* agent's API keys) called by a user who is not the owner of the            *)
(* organization is answered 403, returns no data and changes no state.       *)
NonOwnerForbidden ==
  [][ ( /\ admin'.response # admin.response
        /\ admin'.response.route \in OrgScopedRoutes
        /\ admin'.response.org # None
        /\ admin'.response.targets = 1
        /\ OrgOwner[admin'.response.org] # admin'.response.user )
      => /\ admin'.response.status = 403
         /\ admin'.response.balance = None
         /\ admin'.response.rows = {}
         /\ admin'.workspaces = admin.workspaces
         /\ UNCHANGED << tables, entities, config >>
    ]_vars

(* C27: PolicyCreate and BudgetCreate reject (422) a payload with zero       *)
(* targets or with more than one target, so every policy and budget stored   *)
(* through the create routes has exactly one non-null target field.          *)
CreateNeedsOneTarget ==
  /\ (/\ admin.response.route \in {"create_policy", "create_budget"}
      /\ admin.response.targets # 1) => admin.response.status = 422
  /\ \A p \in policies : TargetCount(p) = 1
  /\ \A b \in budgets : TargetCount(b) = 1

(* ============ requests cancelled while in flight (SpecCancel) =========== *)
\* the positions at which chat_completions is suspended in an await
Awaiting == {"hierarchy", "budgets", "prelocked", "provider", "deduct_lock",
             "deduct_locked", "record"}

\* the cancellation committing what the open transaction holds
CancelCommits(r) ==
  /\ \/ req[r].pc \in Awaiting
     \/ req[r].pc = "done" /\ req[r].status = 200
  /\ IF req[r].pc = "done" THEN UNCHANGED << tables, lock >>
     ELSE EndTransaction(r, req[r].pending, << >>, << >>, FALSE)
  /\ req' = [req EXCEPT ![r] = [Responded(r, 0, @) EXCEPT !.pc = "cancelled"]]
  /\ UNCHANGED << entities, config, now, providerCalls, purchases, direct >>

\* asyncio.CancelledError is raised at the await the handler is suspended
\* in; it is not an Exception, so no handler of chat_completions catches it:
\* `async with db.begin()` rolls the open transaction back and nothing is
\* recorded. Delivered once the commit transaction has committed (the
\* session closes at line 326), it only loses the response
Cancel(r) ==
  /\ \/ req[r].pc \in Awaiting
     \/ req[r].pc = "done" /\ req[r].status = 200
  /\ IF req[r].pc = "done" THEN UNCHANGED << tables, lock >>
     ELSE EndTransaction(r, << >>, << >>, << >>, TRUE)
  /\ req' = [req EXCEPT ![r] = [Responded(r, 0, @) EXCEPT !.pc = "cancelled"]]
  /\ UNCHANGED << entities, config, now, providerCalls, purchases, direct >>

InitCancel ==
  /\ \E f \in DeductFunding : InitTables(f)
  /\ InitEntities
  /\ budgets = {}
  /\ policies = {}
  /\ apiKeys = ApiKeyRows
  /\ lock = [k \in LockKeys |-> Free]
  /\ now = 0
  /\ req = [r \in Requests |-> IdleReq]
  /\ providerCalls = {}
  /\ purchases = 0
  /\ calls = 0
  /\ lastCall = NoCall
  /\ task = [t \in Purchasers |-> IdleTask]
  /\ lastEval = NoEval
  /\ admin = NoAdmin

NextCancel ==
  \/ \E r \in Requests : Authenticate(r)
  \/ \E r \in Requests : ResolveAndPolicy(r)
  \/ \E r \in Requests : PreCheckLock(r)
  \/ \E r \in Requests : EndPreCheck(r)
  \/ \E r \in Requests : ProviderNotConfigured(r)
  \/ \E r \in Requests : ProviderRaises(r)
  \/ \E r \in Requests : ProviderReturns(r)
  \/ \E r \in Requests : DeductLock(r)
  \/ \E r \in Requests : DeductCheck(r)
  \/ \E r \in Requests : RecordSuccess(r)
  \/ \E r \in Requests : Cancel(r)

SpecCancel == InitCancel /\ [][NextCancel]_vars

(* C28: a gateway request cancelled at any point before its commit          *)
(* transaction has committed leaves no ledger entry under its request_id;    *)
(* cancelled after that commit, its deduction stands: the row is there and   *)
(* no ledger row is ever taken back.                                         *)
CancelBeforeCommitNoEntry ==
  /\ [](\A r \in Requests :
          (req[r].pc = "cancelled" /\ req[r].charged = None) =>
            KeyRowsIn(ledger, req[r].request_id) = {})
  /\ [][\A r \in Requests :
          (req[r].pc = "done" /\ req'[r].pc = "cancelled") =>
            /\ ledger' = ledger
            /\ KeyRowsIn(ledger', req[r].request_id) # {}]_vars
  /\ [][\A i \in DOMAIN ledger :
          i \in DOMAIN ledger' /\ ledger'[i] = ledger[i]]_vars

\* a request was cancelled with its deduction row appended but not committed
CancelBeforeCommitNoEntryWitness ==
  \E r \in Requests :
    /\ req[r].pc = "cancelled"
    /\ req[r].charged = None
    /\ req[r].deduct = "entry"
    /\ req[r].credits > 0
    /\ get_group_balance(ledger, BillingOfReq(r)) >= req[r].credits
    /\ KeyRowsIn(ledger, req[r].request_id) = {}

(* C29: while a gateway request is inside the provider call it holds no     *)
(* group advisory lock and no uncommitted rows: the pre-check transaction    *)
(* has ended before the call starts and the commit transaction has not begun.*)
ProviderCallHoldsNothing ==
  \A r \in Requests :
    req[r].pc = "provider" =>
      /\ \A k \in LockKeys : lock[k] # r
      /\ req[r].pending = << >>

\* one request is in its provider call while the other holds the lock of the
\* same billing group
ProviderCallHoldsNothingWitness ==
  \E r1, r2 \in Requests :
    /\ req[r1].pc = "provider"
    /\ req[r2].pc \in {"prelocked", "deduct_locked", "record"}
    /\ BillingOfReq(r1) = BillingOfReq(r2)
    /\ lock[LockKey(BillingOfReq(r1))] = r2

(* C30: in deduct_credits the replay lookup comes before the advisory lock: *)
(* when the provider has returned and a row already carries the request's    *)
(* idempotency key, the call ends as a replay in that same step, without     *)
(* taking the group lock, without the balance test and without appending.    *)
ReplayLookupBeforeLock ==
  [][\A r \in Requests :
       ( /\ req[r].pc = "provider"
         /\ req'[r].pc # "provider"
         /\ req'[r].credits # None
         /\ req'[r].credits > 0
         /\ ExistingByKey(ledger, GatewayKey(req[r].request_id)) # {} )
       => /\ req'[r].pc = "done"
          /\ req'[r].status = 200
          /\ req'[r].deduct = "replay"
          /\ lock' = lock
          /\ ledger' = ledger]_vars

\* a replay was answered 200 although the balance no longer covers its amount
ReplayLookupBeforeLockWitness ==
  \E r \in Requests :
    /\ req[r].status = 200
    /\ req[r].deduct = "replay"
    /\ get_group_balance(ledger, BillingOfReq(r)) < req[r].charged

(* ====== the spend query over a filled usage table (SpecSpend) ========== *)
MaxEvents == 2          \* rows of the usage table in SpecSpend
\* a usage_events row as record_usage_event builds it from its arguments
UsageRow(agent_id, status, credits_charged, created_at) ==
  [request_id |-> "", agent_id |-> agent_id, group_id |-> 1,
   model |-> MockModel, status |-> status,
   credits_charged |-> credits_charged, input_tokens |-> 0,
   output_tokens |-> 0, created_at |-> created_at]

\* the rows the table may hold: agent_id is nullable, the status is any
\* UsageStatus, created_at is a day of last month (-1) or today
UsageRowPool ==
  { UsageRow(a, s, 3, d) :
      a \in Agents \cup {None}, s \in {"SUCCESS", "ERROR"}, d \in {0 - 1, 0} }

BudgetPeriods == {"DAILY", "MONTHLY", "TOTAL"}
\* budgets of every level with every period
SpendBudgets ==
  { [b EXCEPT !.period = p] : b \in BudgetUniverse, p \in BudgetPeriods }

\* budgets/service.py 145-153: the spend of one budget is computed
SumUsageCall ==
  /\ \E b \in SpendBudgets :
       lastEval' = [op |-> "_sum_usage_for_period", budget |-> b,
                    today |-> now, table |-> usage,
                    result |-> CurrentSpend(usage, b, now)]
  /\ UNCHANGED << gateway, config, admin >>

InitSpend ==
  /\ InitEntities
  /\ \E n \in 0..MaxEvents : usage \in [1..n -> UsageRowPool]
  /\ ledger = << >>
  /\ audit = << >>
  /\ budgets = {}
  /\ policies = {}
  /\ apiKeys = ApiKeyRows
  /\ lock = [k \in LockKeys |-> Free]
  /\ now = 0
  /\ req = [r \in Requests |-> IdleReq]
  /\ providerCalls = {}
  /\ purchases = 0
  /\ calls = 0
  /\ lastCall = NoCall
  /\ task = [t \in Purchasers |-> IdleTask]
  /\ lastEval = NoEval
  /\ admin = NoAdmin

NextSpend == SumUsageCall \/ Tick

SpecSpend == InitSpend /\ [][NextSpend]_vars

\* the first day of the window of a period that contains `today`
WindowStart(period, today) ==
  IF period = "DAILY" THEN today
  ELSE CHOOSE d \in (today - DaysPerMonth + 1)..today : d % DaysPerMonth = 0

\* is the agent the target of the budget or below it?
InSubtree(a, b) ==
  /\ a \in Agents
  /\ \/ b.agent_id = a
     \/ b.agent_group_id = AgentGroupOf[a]
     \/ b.workspace_id = WorkspaceOf[AgentGroupOf[a]]
     \/ b.org_id = OrgOf[WorkspaceOf[AgentGroupOf[a]]]

\* does the row count towards the budget?
Counts(e, b, today) ==
  /\ e.status = "SUCCESS"
  /\ b.period # "TOTAL" => e.created_at >= WindowStart(b.period, today)
  /\ InSubtree(e.agent_id, b)

\* credits of the first n rows that count
RECURSIVE CountedCredits(_, _, _, _)
CountedCredits(events, b, today, n) ==
  IF n = 0 THEN 0
  ELSE CountedCredits(events, b, today, n - 1)
       + (IF Counts(events[n], b, today) THEN events[n].credits_charged ELSE 0)

(* C31: the spend computed for a budget is the sum of credits_charged over   *)
(* exactly the rows with status SUCCESS, created_at not before the start of  *)
(* the budget's window (today for DAILY, the first of the month for MONTHLY, *)
(* no bound for TOTAL) and an agent inside the subtree of the budget's       *)
(* target; rows of other agents, rows without an agent, rows before the      *)
(* window and rows of another status add nothing.                            *)
SpendIsSumOverWindowAndSubtree ==
  lastEval.op = "_sum_usage_for_period" =>
    lastEval.result =
      CountedCredits(lastEval.table, lastEval.budget, lastEval.today,
                     Len(lastEval.table))

\* the table holds a row that counts and a SUCCESS row of yesterday that a
\* DAILY budget leaves out
SpendIsSumOverWindowAndSubtreeWitness ==
  /\ lastEval.op = "_sum_usage_for_period"
  /\ lastEval.budget.period = "DAILY"
  /\ lastEval.today = 1
  /\ lastEval.result = 0
  /\ \E i \in DOMAIN usage :
       /\ usage[i].status = "SUCCESS"
       /\ usage[i].created_at = 0
       /\ InSubtree(usage[i].agent_id, lastEval.budget)

(* ===== the pipeline under budgets of every level (SpecBudget) ========== *)
Budget5 ==
  [id |-> 5, org_id |-> 1, workspace_id |-> None, agent_group_id |-> None,
   agent_id |-> None, period |-> "TOTAL", limit_credits |-> 0,
   auto_disable |-> TRUE, is_active |-> TRUE]
Budget6 ==
  [id |-> 6, org_id |-> None, workspace_id |-> 1, agent_group_id |-> None,
   agent_id |-> None, period |-> "DAILY", limit_credits |-> 1,
   auto_disable |-> TRUE, is_active |-> TRUE]
\* auto-disabling budgets on an agent, an agent group, the workspace and the
\* organization
DisablingBudgets == {Budget1, Budget3, Budget5, Budget6}
BudgetFunding == 3      \* credits purchased for the billing group beforehand

InitBudget ==
  /\ InitTables(BudgetFunding)
  /\ InitEntities
  /\ budgets \in { bs \in SUBSET DisablingBudgets :
                     bs # {} /\ Cardinality(bs) <= MaxBudgets }
  /\ policies = {}
  /\ apiKeys = ApiKeyRows
  /\ lock = [k \in LockKeys |-> Free]
  /\ now = 0
  /\ req = [r \in Requests |-> IdleReq]
  /\ providerCalls = {}
  /\ purchases = 0
  /\ calls = 0
  /\ lastCall = NoCall
  /\ task = [t \in Purchasers |-> IdleTask]
  /\ lastEval = NoEval
  /\ admin = NoAdmin

NextBudget ==
  \/ \E r \in Requests : Authenticate(r)
  \/ \E r \in Requests : ResolveAndPolicy(r)
  \/ \E r \in Requests : CheckBudget(r)
  \/ \E r \in Requests : AutoDisable(r)
  \/ \E r \in Requests : BudgetRaise(r)
  \/ \E r \in Requests : PreCheckLock(r)
  \/ \E r \in Requests : EndPreCheck(r)
  \/ \E r \in Requests : ProviderNotConfigured(r)
  \/ \E r \in Requests : ProviderRaises(r)
  \/ \E r \in Requests : ProviderReturns(r)
  \/ \E r \in Requests : DeductLock(r)
  \/ \E r \in Requests : DeductCheck(r)
  \/ \E r \in Requests : RecordSuccess(r)
  \/ Tick

SpecBudget == InitBudget /\ [][NextBudget]_vars

\* the target of a budget: its level and the id at that level
TargetLevel(b) ==
  IF b.agent_id # None THEN "agent"
  ELSE IF b.agent_group_id # None THEN "agent_group"
  ELSE IF b.workspace_id # None THEN "workspace"
  ELSE "organization"

(* C32: the step that auto-disables for a budget changes the one field of    *)
(* that budget's own target and nothing else: every other agent's status     *)
(* and every other group's, workspace's and organization's is_active stay,   *)
(* descendants and siblings of the target included, and so do the policies,  *)
(* the budgets, the API keys and the three tables; no other step of the      *)
(* pipeline changes a status or an is_active at all.                         *)
AutoDisableWritesOnlyTarget ==
  [][/\ \A r \in Requests :
          (req[r].pc = "auto_disable" /\ req'[r].pc # "auto_disable") =>
            LET b == BudgetById(req[r].blocked)
            IN /\ TargetDisabled(b)'
               /\ \A a \in Agents :
                    (TargetLevel(b) # "agent" \/ a # b.agent_id) =>
                      agentStatus'[a] = agentStatus[a]
               /\ \A g \in AgentGroups :
                    (TargetLevel(b) # "agent_group" \/ g # b.agent_group_id) =>
                      groupActive'[g] = groupActive[g]
               /\ \A w \in Workspaces :
                    (TargetLevel(b) # "workspace" \/ w # b.workspace_id) =>
                      wsActive'[w] = wsActive[w]
               /\ \A o \in Orgs :
                    (TargetLevel(b) # "organization" \/ o # b.org_id) =>
                      orgActive'[o] = orgActive[o]
               /\ UNCHANGED << budgets, policies, apiKeys, ledger, usage, audit >>
     /\ (entities' # entities) =>
          \E r \in Requests : req[r].pc = "auto_disable" /\ req'[r].pc = "budget_raise"
    ]_vars

\* the workspace and an agent group below it were disabled by two requests,
\* while the organization above, the sibling group and both agents are as
\* they were
AutoDisableWritesOnlyTargetWitness ==
  /\ ~wsActive[1]
  /\ ~groupActive[2]
  /\ orgActive[1]
  /\ groupActive[1]
  /\ \A a \in Agents : agentStatus[a] = "ACTIVE"

(* C33: nothing in the pipeline re-enables a target: an agent that is        *)
(* BUDGET_EXHAUSTED and an agent group, workspace or organization whose      *)
(* is_active is false are the same after every step of a gateway request,    *)
(* every budget check, every later auto-disable and every midnight at which  *)
(* a budget window starts afresh.                                            *)
DisabledStaysDisabled ==
  [][/\ \A a \in Agents :
          agentStatus[a] = "BUDGET_EXHAUSTED" =>
            agentStatus'[a] = "BUDGET_EXHAUSTED"
     /\ \A g \in AgentGroups : ~groupActive[g] => ~groupActive'[g]
     /\ \A w \in Workspaces : ~wsActive[w] => ~wsActive'[w]
     /\ \A o \in Orgs : ~orgActive[o] => ~orgActive'[o]]_vars

\* a request blocked by the DAILY budget of agent 1 exhausted the agent,
\* midnight passed, the budget's new window is empty, and the other request
\* of the agent was answered 403
DisabledStaysDisabledWitness ==
  /\ now = 1
  /\ Budget1 \in budgets
  /\ agentStatus[1] = "BUDGET_EXHAUSTED"
  /\ CurrentSpend(usage, Budget1, now) = 0
  /\ \E r1, r2 \in Requests :
       /\ req[r1].status = 402 /\ req[r1].blocked = Budget1.id
       /\ req[r2].status = 403 /\ req[r2].agent_id = 1

(* C34: every request whose provider call returned normally has, once it has *)
(* answered, a committed usage event of status SUCCESS or BUDGET_EXCEEDED    *)
(* and the answer 200 or 402, also when the actual cost is zero credits.     *)
ReturnedCallIsRecorded ==
  \A r \in Requests :
    (req[r].pc = "done" /\ r \in providerCalls /\ req[r].deduct # "none") =>
      /\ req[r].status \in {200, 402}
      /\ \/ UsageRowsIn(usage, req[r].request_id, "SUCCESS") # {}
         \/ UsageRowsIn(usage, req[r].request_id, "BUDGET_EXCEEDED") # {}

(* C35: when two deduct_credits calls with one idempotency key both miss the *)
(* replay lookup and one of them commits its row first, the other, once it   *)
(* holds the lock, returns that row: it does not raise                       *)
(* InsufficientCreditsError, whatever balance the first deduction left.      *)
SameKeyRaceReturnsEntry ==
  [][\A r \in Requests :
       (/\ req[r].pc = "deduct_locked"
        /\ req'[r].pc # "deduct_locked"
        /\ KeyRowsIn(ledger, req[r].request_id) # {}) =>
         /\ req'[r].deduct = "replay"
         /\ req'[r].pc = "record"]_vars

(* ==== runs of the record_usage_and_deduct activity (SpecActivity) ====== *)
MaxRuns == 3            \* executions of the activity in one behaviour
\* request_id of the /usage/request bodies (the client provides it)
UsageRequests == {"q1", "q2"}
\* f"usage:{request_id}"
WorkflowKey(request_id) ==
  IF request_id = "q1" THEN "usage:q1"
  ELSE IF request_id = "q2" THEN "usage:q2"
  ELSE "usage:"
\* credits_charged of the RecordUsageInput, computed by calculate_cost
ActivityCredits == {0, 1, 3}
ActivityFunding == {0, 3, 4}

\* workflows/activities.py 100-139: one execution of the activity, in one
\* transaction: deduct_credits, then record_usage_event; an exception of
\* deduct_credits leaves the transaction and rolls it back
record_usage_and_deduct ==
  /\ calls < MaxRuns
  /\ \E q \in UsageRequests, g \in Groups, credits \in ActivityCredits :
       LET out == deduct_credits(ledger, g, credits, WorkflowKey(q))
           event == [UsageRow(None, "SUCCESS", credits, now)
                       EXCEPT !.request_id = q, !.group_id = g]
       IN /\ ledger' = ledger \o out.rows
          /\ usage' = IF out.result = "row" THEN Append(usage, event)
                      ELSE usage
          /\ lastCall' = [op |-> "record_usage_and_deduct",
                          key |-> WorkflowKey(q), group_id |-> g,
                          amount |-> credits, result |-> out.result,
                          row |-> IF out.result = "row"
                                  THEN ReturnedRow(ledger, out.rows,
                                                   WorkflowKey(q))
                                  ELSE 0]
  /\ calls' = calls + 1
  /\ UNCHANGED << audit, entities, config, lock, now, req, providerCalls,
                  purchases, task, lastEval, admin >>

InitActivity ==
  /\ \E f \in ActivityFunding : InitTables(f)
  /\ InitEntities
  /\ budgets = {}
  /\ policies = {}
  /\ apiKeys = ApiKeyRows
  /\ lock = [k \in LockKeys |-> Free]
  /\ now = 0
  /\ req = [r \in Requests |-> IdleReq]
  /\ providerCalls = {}
  /\ purchases = 0
  /\ calls = 0
  /\ lastCall = NoCall
  /\ task = [t \in Purchasers |-> IdleTask]
  /\ lastEval = NoEval
  /\ admin = NoAdmin

NextActivity == record_usage_and_deduct

SpecActivity == InitActivity /\ [][NextActivity]_vars

(* C36: however often the activity runs with one idempotency key, the ledger *)
(* holds at most one deduction under that key, and once a run has returned   *)
(* there is exactly one deduction and exactly one usage event of the request.*)
ActivityRerunLeavesOneEvent ==
  \A q \in UsageRequests :
    /\ Cardinality(ExistingByKey(ledger, WorkflowKey(q))) <= 1
    /\ Cardinality(AllUsageRowsIn(usage, q))
         = Cardinality(ExistingByKey(ledger, WorkflowKey(q)))

EveryExceededTargetDisabled ==
  [][\A r \in Requests :
       (req[r].pc = "budget_raise" /\ req'[r].pc = "done") =>
         \A b \in budgets :
           (/\ IsOnPath(b, r)
            /\ b.auto_disable
            /\ Exceeds(SpendOf(b), req[r].required, b)) => TargetDisabled(b)]_vars

(* ===== the pipeline on a bounded connection pool (SpecPool) ============ *)
PoolBudgetConfigs == { {Budget5}, {Budget1, Budget3} }

InitPool ==
  /\ InitBudget
  /\ budgets \in PoolBudgetConfigs

\* the steps of one request; a step that opens a session needs a connection
\* of the pool
RequestStep(r) ==
  \/ PoolHasRoom /\ Authenticate(r)
  \/ ResolveAndPolicy(r)
  \/ CheckBudget(r)
  \/ PoolHasRoom /\ AutoDisable(r)
  \/ PoolTimeout(r)
  \/ BudgetRaise(r)
  \/ PreCheckLock(r)
  \/ EndPreCheck(r)
  \/ PoolHasRoom /\ ProviderNotConfigured(r)
  \/ PoolHasRoom /\ ProviderRaises(r)
  \/ PoolHasRoom /\ ProviderReturns(r)
  \/ DeductLock(r)
  \/ DeductCheck(r)
  \/ RecordSuccess(r)

NextPool == \E r \in Requests : RequestStep(r)

SpecPool == InitPool /\ [][NextPool]_vars

\* the event loop runs every task that can take a step, the database grants
\* a free lock, the pool's timer fires
SpecPoolFair == SpecPool /\ \A r \in Requests : WF_vars(RequestStep(r))

(* C39: under fair scheduling every gateway request that has started        *)
(* answers: no request waits forever for the advisory lock of its billing    *)
(* group or for a connection of the pool, also when every connection is held *)
(* by a pre-check transaction that needs a second one for its auto-disable.  *)
EveryRequestAnswers ==
  \A r \in Requests : (req[r].pc # "idle") ~> (req[r].pc = "done")

\* both pre-check transactions hold a connection and wait for a second one
EveryRequestAnswersWitness ==
  /\ \A r \in Requests : req[r].pc = "auto_disable"
  /\ ~PoolHasRoom

\* does this step commit a SUCCESS usage event or a ledger row of request r?
CommitsChargeOf(r) ==
  \/ UsageRowsIn(usage', r, "SUCCESS") # UsageRowsIn(usage, r, "SUCCESS")
  \/ KeyRowsIn(ledger', r) # KeyRowsIn(ledger, r)

\* is the agent of the request, or one of its ancestors, disabled?
PathDisabled(rec) ==
  \/ agentStatus[rec.agent_id] # "ACTIVE"
  \/ AncestorDisabled(rec)

(* C40 as stated: no SUCCESS usage event and no ledger deduction is          *)
(* committed for an agent once the agent is BUDGET_EXHAUSTED or one of its   *)
(* ancestors is inactive, requests already past their pre-check included.    *)
NoChargeAfterDisable ==
  [][\A r \in Requests :
       (req[r].agent_id # None /\ CommitsChargeOf(r)) =>
         ~PathDisabled(req[r])]_vars

(* C40, as the code has it: a disable stops the requests that start after    *)
(* it, not those in flight. A request that authenticates while its agent is  *)
(* not ACTIVE, or walks the hierarchy while an ancestor is inactive, is      *)
(* answered at that step without a provider call, an answered request takes  *)
(* no further step, and a SUCCESS event or a deduction is committed only by  *)
(* the commit step of a request whose provider call was made; that step      *)
(* does not read the status again.                                           *)
DisableStopsOnlyNewRequests ==
  [][\A r \in Requests :
       /\ (/\ req[r].pc = "idle" /\ req'[r].pc # "idle"
           /\ req'[r].agent_id # None
           /\ agentStatus[req'[r].agent_id] # "ACTIVE") =>
            /\ req'[r].pc = "done"
            /\ r \notin providerCalls'
       /\ (/\ req[r].pc = "hierarchy" /\ req'[r].pc # "hierarchy"
           /\ AncestorDisabled(req[r])) =>
            /\ req'[r].pc = "done"
            /\ r \notin providerCalls'
       /\ req[r].pc = "done" => req'[r] = req[r]
       /\ CommitsChargeOf(r) =>
            /\ req[r].pc \in {"provider", "record"}
            /\ r \in providerCalls'
            /\ req'[r].status = 200]_vars

\* a request blocked by the DAILY budget of agent 1 when nothing was spent
\* exhausted the agent, and the other request of agent 1, already past its
\* pre-check, was charged and answered 200
DisableStopsOnlyNewRequestsWitness ==
  /\ agentStatus[1] = "BUDGET_EXHAUSTED"
  /\ \E r1, r2 \in Requests :
       /\ req[r1].status = 402 /\ req[r1].blocked = Budget1.id
       /\ req[r1].current_spend = 0
       /\ req[r2].status = 200 /\ req[r2].agent_id = 1
       /\ KeyRowsIn(ledger, r2) # {}

====
